---- MODULE Spec2Model ----
(***************************************************************************)
(* A model of the Jira dashboard's aggregation and detail code:            *)
(*   src/jira/queries.py             the capability matrix, its historical *)
(*                                   variant, the critical/high list       *)
(*   src/jira/queries.py             get_flagged_issues and its cache      *)
(*   src/jira/queries.py             get_project_components                *)
(*   src/jira/data_processor.py      get_flagged_comment,                  *)
(*                                   get_target_completion_date,           *)
(*                                   get_resolution_approach               *)
(*   src/auth/token_storage.py       the token files                       *)
(*   src/auth/oauth.py               validate_user_belongs_to_workspace    *)
(*   src/components/sidebar.py       render_sidebar                        *)
(*   src/ui/performance.py           load_data_parallel                    *)
(*   src/jira_integration/client.py  get_jira_connection and its cache,    *)
(*                                   validate_jira_connection              *)
(*   src/pages/component_capability.py  the trend arrows, the page render  *)
(*   src/dashboard_pages/            the home and sprint status renders    *)
(* Each part has a specification of its own over the same variables; the   *)
(* comments of a part say what the variables hold there.                   *)
(* The issue tracker behind the gateway is state of its own: every         *)
(* jira.search_issues / jira.issue call reads it at the moment of the      *)
(* call, and other users of the tracker change it between two calls.       *)
(***************************************************************************)
EXTENDS Integers, Sequences, FiniteSets, TLC

VARIABLES
    issues,   \* the tracker: issue key -> issue record (read through the gateway)
    now,      \* the clock, in ticks (TicksPerDay ticks to a day)
    fn,       \* the function called: "idle" before the call
    args,     \* its arguments
    pc,       \* its position: the number of the next gateway query
    data,     \* its local `data` dict (the matrix under construction)
    found,    \* its local list of issue records (initial_issues / full_issues)
    result,   \* what it returned: [tag |-> "pending" | "None" | "value", ...]
    hits,     \* per matrix cell, the keys the gateway matched for that query
    nq,       \* the number of search queries issued by the call
    raised,   \* the gateway call that raised into the handler ("no": none did)
    edited    \* whether the tracker changed while the call was running

vars == <<issues, now, fn, args, pc, data, found, result, hits, nq, raised, edited>>

-----------------------------------------------------------------------------
(* Bounds of the model *)

NumIssues == 2       \* issues in the tracker
TicksPerDay == 2     \* clock resolution: ticks per calendar day
Today == 60          \* the calendar day of `now`

-----------------------------------------------------------------------------
(* Values *)

Keys == 1..NumIssues
NoSprint == "EMPTY"
SprintIds == {"S1", "S2"}
Unresolved == "Unresolved"

Pending == [tag |-> "pending"]
PyNone == [tag |-> "None"]
Value(v) == [tag |-> "value", value |-> v]

\* A point in time `age` days before Today, at tick `tod` of that day.
At(age, tod) == (Today - age) * TicksPerDay + tod

\* timedelta(days=n) in ticks.
Days(n) == n * TicksPerDay

\* strftime('%Y-%m-%d'): the calendar day of a point in time; the time of day
\* is dropped.
DateStr(t) == t \div TicksPerDay

\* JQL compares a date field with a 'YYYY-MM-DD' literal as with that day's
\* midnight.
Midnight(d) == d * TicksPerDay

\* project.components of the configured project.
ProjectComponents ==
    << [name |-> "Search", id |-> "10001"], [name |-> "Billing", id |-> "10002"] >>

\* The component names a caller may ask for.
ComponentNames == {"Search", "search", "SEARCH", "Billing", "Reports"}

\* str.lower() on the names above.
Lower(name) ==
    CASE name \in {"Search", "search", "SEARCH"} -> "search"
      [] name = "Billing" -> "billing"
      [] name = "Reports" -> "reports"

MkIssue(type, priority, sprint, resolution, status, created, resolved, component) ==
    [type |-> type, priority |-> priority, sprint |-> sprint,
     resolution |-> resolution, status |-> status, created |-> created,
     resolved |-> resolved, component |-> component]

-----------------------------------------------------------------------------
(* The gateway's reading of the JQL the code builds *)

\* `component = {component.id}`
ComponentFilter(i, cid) == i.component = cid

\* `resolution = Unresolved`
IsUnresolved(i) == i.resolution = Unresolved

\* `sprint = {sprint_id}`
InSprint(i, sprint_id) == i.sprint = sprint_id

\* `(sprint != {sprint_id} OR sprint is EMPTY)`: in JQL `!=` never matches an
\* empty field, which is why the code adds the second disjunct.
\* (mutants: the clause written `sprint is not EMPTY`; the clause left out)
NotInSprintOrNotEmpty(i, sprint_id) ==
    (i.sprint # NoSprint /\ i.sprint # sprint_id) \/ i.sprint # NoSprint
NotInSprintNeOnly(i, sprint_id) == i.sprint # NoSprint /\ i.sprint # sprint_id
NotInSprint(i, sprint_id) ==
    (i.sprint # NoSprint /\ i.sprint # sprint_id) \/ i.sprint = NoSprint

\* `resolved >= {date}`: the resolution date exists and is not before midnight
\* of the day.
ResolvedSince(i, d) == i.resolution # Unresolved /\ i.resolved >= Midnight(d)

\* `created >= {date}`
CreatedSince(i, d) == i.created >= Midnight(d)

\* `created < "{date}"`
CreatedBefore(i, d) == i.created < Midnight(d)

\* `resolved < "{date}"`
ResolvedBefore(i, d) == i.resolution # Unresolved /\ i.resolved < Midnight(d)

\* The row's type clause: `type = Bug`, or `(type = Story OR type = Task)`.
\* (mutant: the Features clause without Task)
TypeFilterStoryOnly(row, i) ==
    IF row = "Defects" THEN i.type = "Bug" ELSE i.type = "Story"
TypeFilter(row, i) ==
    IF row = "Defects" THEN i.type = "Bug"
    ELSE i.type = "Story" \/ i.type = "Task"

\* The column names of `criteria` in get_component_capability_status, in order.
Criteria ==
    << "Backlog Critical", "Backlog High", "Backlog Medium", "Backlog Low",
       "Sprint Critical", "Sprint High", "Sprint Medium", "Sprint Low",
       "Total", "Resolved in last 30 days", "Added in last 30 days" >>

BacklogCols == {"Backlog Critical", "Backlog High", "Backlog Medium", "Backlog Low"}
SprintCols == {"Sprint Critical", "Sprint High", "Sprint Medium", "Sprint Low"}

\* (mutant: the Low criteria name the priority Low only)
CriterionPrioritiesLowOnly(col) ==
    CASE col \in {"Backlog Critical", "Sprint Critical"} -> {"Highest", "Critical"}
      [] col \in {"Backlog High", "Sprint High"} -> {"High"}
      [] col \in {"Backlog Medium", "Sprint Medium"} -> {"Medium"}
      [] col \in {"Backlog Low", "Sprint Low"} -> {"Low"}
\* The priority names each Backlog*/Sprint* criterion lists.
CriterionPriorities(col) ==
    CASE col \in {"Backlog Critical", "Sprint Critical"} -> {"Highest", "Critical"}
      [] col \in {"Backlog High", "Sprint High"} -> {"High"}
      [] col \in {"Backlog Medium", "Sprint Medium"} -> {"Medium"}
      [] col \in {"Backlog Low", "Sprint Low"} -> {"Low", "Lowest"}

\* base_jql of one criterion of get_component_capability_status.
BaseJql(col, i, cid, sprint_id, thirty_days_ago) ==
    /\ ComponentFilter(i, cid)
    /\ CASE col \in BacklogCols ->
              /\ IsUnresolved(i)
              /\ i.priority \in CriterionPriorities(col)
              /\ NotInSprint(i, sprint_id)
         [] col \in SprintCols ->
              /\ IsUnresolved(i)
              /\ i.priority \in CriterionPriorities(col)
              /\ InSprint(i, sprint_id)
         [] col = "Total" -> IsUnresolved(i)
         [] col = "Resolved in last 30 days" ->
              ResolvedSince(i, thirty_days_ago) /\ i.status # "Cancelled"
         [] col = "Added in last 30 days" -> CreatedSince(i, thirty_days_ago)

\* jira.search_issues(jql): the keys of the issues that match now.
SearchStatus(row, col, cid, sprint_id, thirty_days_ago) ==
    {k \in DOMAIN issues : /\ BaseJql(col, issues[k], cid, sprint_id, thirty_days_ago)
                  /\ TypeFilter(row, issues[k])}

\* The lookup loop over project.components: the first component whose name
\* equals component_name, or none.
\* (mutant: the names compared ignoring case)
NameMatchesIgnoringCase(comp, component_name) == Lower(comp.name) = Lower(component_name)
NameMatches(comp, component_name) == comp.name = component_name

FindComponent(component_name) ==
    LET idx == {n \in 1..Len(ProjectComponents) :
                   NameMatches(ProjectComponents[n], component_name)}
    IN IF idx = {} THEN PyNone
       ELSE Value(ProjectComponents[CHOOSE n \in idx : \A m \in idx : n <= m])

-----------------------------------------------------------------------------
(* The issues the tracker may hold when a call starts *)

\* Issues for the capability matrix: each type, each priority bucket, an
\* unrecognised priority, each sprint state, resolved and other-component ones.
CapPool ==
    { MkIssue("Bug", "High", NoSprint, Unresolved, "Open", At(40, 0), 0, "10001"),
      MkIssue("Story", "Critical", "S1", Unresolved, "In Progress", At(10, 1), 0, "10001"),
      MkIssue("Task", "Lowest", "S2", Unresolved, "Open", At(3, 0), 0, "10001"),
      MkIssue("Bug", "Medium", "S1", Unresolved, "Open", At(12, 0), 0, "10001"),
      MkIssue("Bug", "High", "S2", "Done", "Done", At(45, 0), At(5, 1), "10001"),
      MkIssue("Epic", "Highest", NoSprint, Unresolved, "Open", At(20, 0), 0, "10001"),
      MkIssue("Bug", "Blocker", NoSprint, Unresolved, "Open", At(2, 1), 0, "10001"),
      MkIssue("Story", "High", "S2", Unresolved, "Open", At(1, 0), 0, "10002") }

NowValues == {At(0, tod) : tod \in 0..(TicksPerDay - 1)}

EmptyMatrix == [r \in {"Defects", "Features"} |-> <<>>]

Idle ==
    /\ fn = "idle"
    /\ args = <<>>
    /\ pc = 0
    /\ data = EmptyMatrix
    /\ found = <<>>
    /\ result = Pending
    /\ hits = EmptyMatrix
    /\ nq = 0
    /\ raised = "no"
    /\ edited = FALSE

InitCap ==
    /\ issues \in [Keys -> CapPool]
    /\ now \in NowValues
    /\ Idle

-----------------------------------------------------------------------------
(* get_component_capability_status *)

\* The `except Exception` handler: log, st.error, return None.
\* (mutant: the handler returns what `data` holds so far)
ReturnPartialOnException(kind) ==
    /\ raised' = kind
    /\ result' = Value(data)
ReturnNoneOnException(kind) ==
    /\ raised' = kind
    /\ result' = PyNone

\* Lines 272-295: the project lookup, the component lookup by name, the
\* empty `data` and the date 30 days back.
StartStatus(component_name, sprint_id) ==
    /\ fn = "idle"
    /\ LET component == FindComponent(component_name)
       IN IF component = PyNone
          THEN /\ fn' = "status"
               /\ result' = PyNone
               /\ args' = [component_name |-> component_name, sprint_id |-> sprint_id]
               /\ UNCHANGED pc
          ELSE /\ fn' = "status"
               /\ pc' = 1
               /\ args' = [component_name |-> component_name, sprint_id |-> sprint_id,
                           component |-> component.value,
                           thirty_days_ago |-> DateStr(now - Days(30))]
               /\ UNCHANGED result
    /\ UNCHANGED <<issues, now, data, found, hits, nq, raised, edited>>

\* jira.project(project_key) raises: the handler returns None.
ProjectLookupRaises(f, component_name, sprint_id) ==
    /\ fn = "idle"
    /\ fn' = f
    /\ args' = [component_name |-> component_name, sprint_id |-> sprint_id]
    /\ ReturnNoneOnException("project")
    /\ UNCHANGED <<issues, now, pc, data, found, hits, nq, edited>>

\* The query the loop of lines 316-325 issues at position p.
ColOf(p) == Criteria[(p + 1) \div 2]
RowOf(p) == IF p % 2 = 1 THEN "Defects" ELSE "Features"
LastStatusQuery == 2 * Len(Criteria)

\* One iteration half: a count query answers, and its total goes into `data`;
\* after the last one `data` is returned.
StatusQuery ==
    /\ fn = "status" /\ result = Pending
    /\ LET col == ColOf(pc)
           row == RowOf(pc)
           keys == SearchStatus(row, col, args.component.id, args.sprint_id,
                                args.thirty_days_ago)
       IN /\ data' = [data EXCEPT ![row] = (col :> Cardinality(keys)) @@ @]
          /\ hits' = [hits EXCEPT ![row] = (col :> keys) @@ @]
    /\ nq' = nq + 1
    /\ pc' = pc + 1
    /\ IF pc = LastStatusQuery
       THEN result' = Value(data')
       ELSE UNCHANGED result
    /\ UNCHANGED <<issues, now, fn, args, found, raised, edited>>

\* A count query raises (timeout, HTTP error): the handler returns None.
StatusQueryRaises ==
    /\ fn = "status" /\ result = Pending
    /\ nq' = nq + 1
    /\ ReturnNoneOnException("search")
    /\ UNCHANGED <<issues, now, fn, args, pc, data, found, hits, edited>>

-----------------------------------------------------------------------------
(* get_component_capability_status_historical *)

\* The column names of `criteria` in the historical variant, in order.
HistCriteria == << "Total", "Added in last 30 days", "Resolved in last 30 days" >>

\* (mutant: the historical Total without `resolution = Unresolved`)
HistBaseJqlTotalOfAllIssues(col, i, cid, date_n_days_ago, date_past_30_days_ago) ==
    /\ ComponentFilter(i, cid)
    /\ CASE col = "Total" -> CreatedBefore(i, date_n_days_ago)
         [] col = "Added in last 30 days" ->
              CreatedSince(i, date_past_30_days_ago) /\ CreatedBefore(i, date_n_days_ago)
         [] col = "Resolved in last 30 days" ->
              /\ ResolvedSince(i, date_past_30_days_ago)
              /\ i.status # "Cancelled"
              /\ ResolvedBefore(i, date_n_days_ago)
\* base_jql of one criterion of the historical variant.
HistBaseJql(col, i, cid, date_n_days_ago, date_past_30_days_ago) ==
    /\ ComponentFilter(i, cid)
    /\ CASE col = "Total" ->
              IsUnresolved(i) /\ CreatedBefore(i, date_n_days_ago)
         [] col = "Added in last 30 days" ->
              CreatedSince(i, date_past_30_days_ago) /\ CreatedBefore(i, date_n_days_ago)
         [] col = "Resolved in last 30 days" ->
              /\ ResolvedSince(i, date_past_30_days_ago)
              /\ i.status # "Cancelled"
              /\ ResolvedBefore(i, date_n_days_ago)

SearchHistorical(row, col, cid, date_n_days_ago, date_past_30_days_ago) ==
    {k \in DOMAIN issues :
        /\ HistBaseJql(col, issues[k], cid, date_n_days_ago, date_past_30_days_ago)
        /\ TypeFilter(row, issues[k])}

\* Line 367: the cutoff day, N days back.
DateNDaysAgo(t, days_ago) == DateStr(t - Days(days_ago))

\* Line 369: the day N+30 days back.
\* (mutant: 31 days instead of 30)
DatePast31DaysAgo(t, days_ago) == DateStr(t - Days(days_ago + 31))
DatePast30DaysAgo(t, days_ago) == DateStr(t - Days(days_ago + 30))

\* Lines 341-371: the lookups and the two dates.
StartHistorical(component_name, sprint_id, days_ago) ==
    /\ fn = "idle"
    /\ LET component == FindComponent(component_name)
       IN IF component = PyNone
          THEN /\ fn' = "historical"
               /\ result' = PyNone
               /\ args' = [component_name |-> component_name, sprint_id |-> sprint_id,
                           days_ago |-> days_ago]
               /\ UNCHANGED pc
          ELSE /\ fn' = "historical"
               /\ pc' = 1
               /\ args' = [component_name |-> component_name, sprint_id |-> sprint_id,
                           days_ago |-> days_ago,
                           component |-> component.value,
                           date_n_days_ago |-> DateNDaysAgo(now, days_ago),
                           date_past_30_days_ago |-> DatePast30DaysAgo(now, days_ago)]
               /\ UNCHANGED result
    /\ UNCHANGED <<issues, now, data, found, hits, nq, raised, edited>>

HistColOf(p) == HistCriteria[(p + 1) \div 2]
LastHistQuery == 2 * Len(HistCriteria)

\* One iteration half of lines 381-392.
HistQuery ==
    /\ fn = "historical" /\ result = Pending
    /\ LET col == HistColOf(pc)
           row == RowOf(pc)
           keys == SearchHistorical(row, col, args.component.id,
                                    args.date_n_days_ago, args.date_past_30_days_ago)
       IN /\ data' = [data EXCEPT ![row] = (col :> Cardinality(keys)) @@ @]
          /\ hits' = [hits EXCEPT ![row] = (col :> keys) @@ @]
    /\ nq' = nq + 1
    /\ pc' = pc + 1
    /\ IF pc = LastHistQuery
       THEN result' = Value(data')
       ELSE UNCHANGED result
    /\ UNCHANGED <<issues, now, fn, args, found, raised, edited>>

HistQueryRaises ==
    /\ fn = "historical" /\ result = Pending
    /\ nq' = nq + 1
    /\ ReturnNoneOnException("search")
    /\ UNCHANGED <<issues, now, fn, args, pc, data, found, hits, edited>>

-----------------------------------------------------------------------------
(* get_critical_high_issues *)

MaxResults == 100

\* The tracker's priority order (ORDER BY priority DESC lists the most urgent
\* first).
PriorityRank(p) ==
    CASE p = "Blocker" -> 7
      [] p = "Highest" -> 6
      [] p = "Critical" -> 5
      [] p = "High" -> 4
      [] p = "Medium" -> 3
      [] p = "Low" -> 2
      [] p = "Lowest" -> 1

\* `priority IN (Highest, Critical, High)`
\* (mutant: Medium listed too)
DetailPrioritiesWithMedium == {"Highest", "Critical", "High", "Medium"}
DetailPriorities == {"Highest", "Critical", "High"}

\* `type IN (Story, Task, Bug)`
\* (mutant: Epic listed too)
DetailTypesWithEpic == {"Story", "Task", "Bug", "Epic"}
DetailTypes == {"Story", "Task", "Bug"}

\* base_query of line 432 and the sprint clause of lines 434-439.
DetailJql(i, cid, sprint_id, sprint_only) ==
    /\ ComponentFilter(i, cid)
    /\ IsUnresolved(i)
    /\ i.priority \in DetailPriorities
    /\ i.type \in DetailTypes
    /\ IF sprint_only THEN InSprint(i, sprint_id) ELSE NotInSprint(i, sprint_id)

\* ORDER BY priority DESC, created DESC (equal ones by key).
Before(a, b) ==
    \/ PriorityRank(issues[a].priority) > PriorityRank(issues[b].priority)
    \/ /\ PriorityRank(issues[a].priority) = PriorityRank(issues[b].priority)
       /\ \/ issues[a].created > issues[b].created
          \/ issues[a].created = issues[b].created /\ a < b

RECURSIVE Ordered(_)
Ordered(S) ==
    IF S = {} THEN <<>>
    ELSE LET first == CHOOSE a \in S : \A b \in S \ {a} : Before(a, b)
         IN <<first>> \o Ordered(S \ {first})

\* What the gateway hands out for an issue: its key and its fields as they
\* are at that moment.
Record(k) == [key |-> k, fields |-> issues[k]]

\* jira.search_issues(jql, maxResults=100, expand='changelog')
SearchDetail(cid, sprint_id, sprint_only) ==
    LET keys == Ordered({k \in DOMAIN issues : DetailJql(issues[k], cid, sprint_id, sprint_only)})
        n == IF Len(keys) < MaxResults THEN Len(keys) ELSE MaxResults
    IN [j \in 1..n |-> Record(keys[j])]

\* Lines 417-428: the lookups.
StartDetail(component_name, sprint_id, sprint_only) ==
    /\ fn = "idle"
    /\ LET component == FindComponent(component_name)
       IN IF component = PyNone
          THEN /\ fn' = "detail"
               /\ result' = PyNone
               /\ args' = [component_name |-> component_name, sprint_id |-> sprint_id,
                           sprint_only |-> sprint_only]
               /\ UNCHANGED <<pc, data>>
          ELSE /\ fn' = "detail"
               /\ pc' = 0
               /\ data' = <<>>
               /\ args' = [component_name |-> component_name, sprint_id |-> sprint_id,
                           sprint_only |-> sprint_only, component |-> component.value]
               /\ UNCHANGED result
    /\ hits' = <<>>
    /\ UNCHANGED <<issues, now, found, nq, raised, edited>>

\* Lines 443-446: the search; an empty result returns None.
DetailSearch ==
    /\ fn = "detail" /\ result = Pending
    /\ pc = 0
    /\ found' = SearchDetail(args.component.id, args.sprint_id, args.sprint_only)
    /\ nq' = nq + 1
    /\ IF found' = <<>>
       THEN result' = PyNone /\ UNCHANGED pc
       ELSE pc' = 1 /\ UNCHANGED result
    /\ UNCHANGED <<issues, now, fn, args, data, hits, raised, edited>>

\* Line 443 raises: the outer handler returns None.
DetailSearchRaises ==
    /\ fn = "detail" /\ result = Pending
    /\ pc = 0
    /\ nq' = nq + 1
    /\ ReturnNoneOnException("search")
    /\ UNCHANGED <<issues, now, fn, args, pc, data, found, hits, edited>>

\* (mutant: an issue whose re-fetch raises is left out of the list)
RefetchDropsFailed(ok) ==
    /\ fn = "detail" /\ result = Pending
    /\ pc \in 1..Len(found)
    /\ data' = (IF ok THEN Append(data, Record(found[pc].key)) ELSE data)
    /\ hits' = Append(hits, [ok |-> ok, record |-> Record(found[pc].key)])
    /\ pc' = pc + 1
    /\ IF pc = Len(found)
       THEN result' = (IF data' # <<>> THEN Value(data') ELSE PyNone)
       ELSE UNCHANGED result
    /\ UNCHANGED <<issues, now, fn, args, found, nq, raised, edited>>
\* Lines 450-460: the issue at position pc is fetched again and the fetched
\* record appended (ok), or the fetch raises and the initial record is
\* appended; after the last one the list is returned.  `hits` keeps, per
\* position, whether the fetch succeeded and the record the tracker held.
Refetch(ok) ==
    /\ fn = "detail" /\ result = Pending
    /\ pc \in 1..Len(found)
    /\ data' = Append(data, IF ok THEN Record(found[pc].key) ELSE found[pc])
    /\ hits' = Append(hits, [ok |-> ok, record |-> Record(found[pc].key)])
    /\ pc' = pc + 1
    /\ IF pc = Len(found)
       THEN result' = Value(data')
       ELSE UNCHANGED result
    /\ UNCHANGED <<issues, now, fn, args, found, nq, raised, edited>>

-----------------------------------------------------------------------------
(* Other users of the tracker, while a call is running *)

Running == fn # "idle" /\ result = Pending

\* Somebody resolves an open issue.
JiraResolve(k) ==
    /\ Running
    /\ IsUnresolved(issues[k])
    /\ issues' = [issues EXCEPT ![k].resolution = "Done", ![k].status = "Done",
                                ![k].resolved = now]
    /\ edited' = TRUE
    /\ UNCHANGED <<now, fn, args, pc, data, found, result, hits, nq, raised>>

\* Somebody changes an issue's priority.
JiraSetPriority(k, p) ==
    /\ Running
    /\ issues[k].priority # p
    /\ issues' = [issues EXCEPT ![k].priority = p]
    /\ edited' = TRUE
    /\ UNCHANGED <<now, fn, args, pc, data, found, result, hits, nq, raised>>

-----------------------------------------------------------------------------
(* The three gateway functions over one tracker *)

DaysAgoValues == {0, 7}

NextCap ==
    \/ \E c \in ComponentNames, s \in SprintIds : StartStatus(c, s)
    \/ \E c \in ComponentNames, s \in SprintIds, d \in DaysAgoValues :
          StartHistorical(c, s, d)
    \/ \E c \in ComponentNames, s \in SprintIds, o \in BOOLEAN : StartDetail(c, s, o)
    \/ \E f \in {"status", "historical", "detail"}, c \in ComponentNames, s \in SprintIds :
          ProjectLookupRaises(f, c, s)
    \/ StatusQuery
    \/ StatusQueryRaises
    \/ HistQuery
    \/ HistQueryRaises
    \/ DetailSearch
    \/ DetailSearchRaises
    \/ \E ok \in BOOLEAN : Refetch(ok)
    \/ \E k \in Keys : JiraResolve(k)

SpecCap == InitCap /\ [][NextCap]_vars

-----------------------------------------------------------------------------
(* The end-to-end scenario of the spec: component "Search" holds two open High
   Defects without a sprint, one open Critical Feature in sprint S1 and one
   Defect resolved five days ago and not cancelled; what the scenario leaves
   open varies. *)

ScenarioIssues ==
    { <<a, b, c, d>> :
        a \in {MkIssue("Bug", "High", NoSprint, Unresolved, "Open", At(40, 0), 0, "10001")},
        b \in {MkIssue("Bug", "High", NoSprint, Unresolved, st, At(age, 1), 0, "10001") :
                 st \in {"Open", "In Progress"}, age \in {2, 35}},
        c \in {MkIssue(t, "Critical", "S1", Unresolved, "In Progress", At(age, 0), 0, "10001") :
                 t \in {"Story", "Task"}, age \in {1, 31}},
        d \in {MkIssue("Bug", p, sp, "Done", st, At(50, 0), At(5, tod), "10001") :
                 p \in {"High", "Medium"}, sp \in {NoSprint, "S1"},
                 st \in {"Done", "Closed"}, tod \in 0..(TicksPerDay - 1)} }

InitScenario ==
    /\ issues \in ScenarioIssues
    /\ now \in NowValues
    /\ Idle

NextScenario ==
    \/ StartStatus("Search", "S1")
    \/ StatusQuery
    \/ StatusQueryRaises

SpecScenario == InitScenario /\ [][NextScenario]_vars

-----------------------------------------------------------------------------
(* The historical variant over issues created around the window's two ends *)

HistAges == {3, 6, 7, 8, 10, 36, 37, 38, 40}

HistPool ==
    { MkIssue("Bug", "High", NoSprint, Unresolved, "Open", At(age, tod), 0, "10001") :
        age \in HistAges, tod \in {0, TicksPerDay - 1} }
    \cup
    { MkIssue("Story", "Medium", "S1", Unresolved, "Open", At(10, 0), 0, "10001"),
      MkIssue("Task", "Low", NoSprint, Unresolved, "Open", At(37, TicksPerDay - 1), 0, "10001"),
      MkIssue("Epic", "High", NoSprint, Unresolved, "Open", At(10, 0), 0, "10001"),
      MkIssue("Bug", "High", NoSprint, Unresolved, "Open", At(10, 0), 0, "10002"),
      MkIssue("Bug", "High", "S1", "Done", "Done", At(45, 0), At(12, 0), "10001"),
      MkIssue("Story", "High", "S1", "Won't Do", "Cancelled", At(20, 0), At(12, 0), "10001") }

InitHist ==
    /\ issues \in [Keys -> HistPool]
    /\ now \in NowValues
    /\ Idle

NextHist ==
    \/ \E c \in {"Search", "Reports"}, d \in DaysAgoValues : StartHistorical(c, "S1", d)
    \/ HistQuery
    \/ HistQueryRaises

SpecHist == InitHist /\ [][NextHist]_vars

-----------------------------------------------------------------------------
(* The critical/high list while priorities change *)

NextDetail ==
    \/ \E c \in ComponentNames, s \in SprintIds, o \in BOOLEAN : StartDetail(c, s, o)
    \/ \E c \in ComponentNames, s \in SprintIds : ProjectLookupRaises("detail", c, s)
    \/ DetailSearch
    \/ DetailSearchRaises
    \/ \E ok \in BOOLEAN : Refetch(ok)
    \/ \E k \in Keys, p \in {"Medium", "High"} : JiraSetPriority(k, p)
    \/ \E k \in Keys : JiraResolve(k)

\* The issues the detail list tells apart: by priority, type, sprint.
DetailPool ==
    { i \in CapPool : i.resolution = Unresolved /\ i.priority # "Blocker" /\ i.component = "10001" }

InitDetail ==
    /\ issues \in [Keys -> DetailPool]
    /\ now \in NowValues
    /\ Idle

SpecDetail == InitDetail /\ [][NextDetail]_vars

-----------------------------------------------------------------------------
(* The critical/high list over a tracker nobody changes *)

NextFixed ==
    \/ \E c \in ComponentNames, s \in SprintIds, o \in BOOLEAN : StartDetail(c, s, o)
    \/ DetailSearch
    \/ \E ok \in BOOLEAN : Refetch(ok)

SpecFixed == InitCap /\ [][NextFixed]_vars

-----------------------------------------------------------------------------
(* render_capability_comparison_table: the trend arrows *)

\* dict.get(key, default)
Get(d, key, default) == IF key \in DOMAIN d THEN d[key] ELSE default

\* (mutant: an equal value shown as an increase)
ArrowWithGreaterOrEqual(current, previous) ==
    IF current >= previous THEN "up"
    ELSE IF current < previous THEN "down"
    ELSE ""
\* get_comparison_arrow: the up arrow, the down arrow or no arrow.
get_comparison_arrow(current, previous) ==
    IF current > previous THEN "up"
    ELSE IF current < previous THEN "down"
    ELSE ""

TrendCols == {"Total", "Added in last 30 days", "Resolved in last 30 days"}

\* Lines 144-188: the nine arrows, keyed by row ("Defects", "Features", or
\* "Combined" for the sum of both) and column.
Arrows(capability_data, historical_data) ==
    LET defect_data == capability_data["Defects"]
        feature_data == capability_data["Features"]
    IN [r \in {"Defects", "Features", "Combined"} |->
         [c \in TrendCols |->
            IF historical_data = PyNone THEN ""
            ELSE LET h == historical_data.value IN
                 CASE r = "Defects" ->
                        get_comparison_arrow(Get(defect_data, c, 0), Get(h["Defects"], c, 0))
                   [] r = "Features" ->
                        get_comparison_arrow(Get(feature_data, c, 0), Get(h["Features"], c, 0))
                   [] r = "Combined" ->
                        get_comparison_arrow(
                            Get(defect_data, c, 0) + Get(feature_data, c, 0),
                            Get(h["Defects"], c, 0) + Get(h["Features"], c, 0))]]

render_capability_comparison_table(capability_data, historical_data) ==
    /\ fn = "idle"
    /\ fn' = "render_table"
    /\ args' = [capability_data |-> capability_data, historical_data |-> historical_data]
    /\ result' = Value(Arrows(capability_data, historical_data))
    /\ UNCHANGED <<issues, now, pc, data, found, hits, nq, raised, edited>>

\* (current, historical) pairs of one cell.
TrendPairs == { <<5, 3>>, <<3, 5>>, <<4, 4>>, <<0, 0>>, <<0, 2>> }

TrendCells == {"Defects", "Features"} \X TrendCols

\* A current matrix (all eleven columns) and a historical one (three columns)
\* from a choice of one pair per compared cell.
CurrentOf(choice) ==
    [r \in {"Defects", "Features"} |->
       [c \in {Criteria[n] : n \in 1..Len(Criteria)} |->
          IF c \in TrendCols THEN choice[<<r, c>>][1] ELSE 1]]

HistoricalOf(choice) ==
    [r \in {"Defects", "Features"} |-> [c \in TrendCols |-> choice[<<r, c>>][2]]]

InitIdle ==
    /\ issues = <<>>
    /\ now = 0
    /\ Idle

NextTrend ==
    \/ \E choice \in [TrendCells -> TrendPairs] :
          render_capability_comparison_table(CurrentOf(choice), Value(HistoricalOf(choice)))
    \/ \E choice \in [TrendCells -> TrendPairs] :
          render_capability_comparison_table(CurrentOf(choice), PyNone)

SpecTrend == InitIdle /\ [][NextTrend]_vars

-----------------------------------------------------------------------------
(* get_flagged_comment.  Text is a sequence of one-character strings, so that
   lower(), the substring test and the slice are computed. *)

UpperLetters == <<"A", "B", "C", "D", "E", "F", "G", "H", "I", "J", "K", "L", "M", "N", "O", "P", "Q", "R", "S", "T", "U", "V", "W", "X", "Y", "Z">>
LowerLetters == <<"a", "b", "c", "d", "e", "f", "g", "h", "i", "j", "k", "l", "m", "n", "o", "p", "q", "r", "s", "t", "u", "v", "w", "x", "y", "z">>

\* str.lower()
LowerText(s) ==
    [i \in 1..Len(s) |->
        IF \E n \in 1..Len(UpperLetters) : UpperLetters[n] = s[i]
        THEN LowerLetters[CHOOSE n \in 1..Len(UpperLetters) : UpperLetters[n] = s[i]]
        ELSE s[i]]

\* sub in s
Contains(s, sub) ==
    \E i \in 1..(Len(s) - Len(sub) + 1) : SubSeq(s, i, i + Len(sub) - 1) = sub

\* s.strip() is not empty
NotBlank(s) == \E i \in 1..Len(s) : s[i] # " "

DisplayLimit == 150
FlagWindow == 300

\* text[:150] + ('...' if len(text) > 150 else '')
Truncate(text) ==
    IF Len(text) > DisplayLimit
    THEN SubSeq(text, 1, DisplayLimit) \o <<".", ".", ".">>
    ELSE text

NoCommentText == <<"N", "o", " ", "c", "o", "m", "m", "e", "n", "t", " ", "t", "e", "x", "t">>
NoComment == <<"N", "o", " ", "c", "o", "m", "m", "e", "n", "t">>

\* comment.body if comment.body else 'No comment text'; None and '' are falsy.
BodyOrDefault(comment) ==
    IF comment.body # PyNone /\ comment.body.value # <<>>
    THEN comment.body.value
    ELSE NoCommentText

\* Lines 236-241: one of the comment's properties has a key containing
\* 'flag' or 'agile', whatever the case.
HasFlagProperty(comment) ==
    \E n \in 1..Len(comment.properties) :
        \/ Contains(LowerText(comment.properties[n]), <<"f", "l", "a", "g">>)
        \/ Contains(LowerText(comment.properties[n]), <<"a", "g", "i", "l", "e">>)

\* Lines 244-246: the body mentions 'flagged', whatever the case.
MentionsFlagged(comment) ==
    /\ comment.body # PyNone
    /\ comment.body.value # <<>>
    /\ Contains(LowerText(comment.body.value), <<"f", "l", "a", "g", "g", "e", "d">>)

\* Lines 234-249: the loop stops at the first comment that has a flag
\* property or, failing that, mentions 'flagged'.
SelectedInLoop(comment) == HasFlagProperty(comment) \/ MentionsFlagged(comment)

\* Index of the comment the loop stops at, 0 when it runs to the end.
FirstSelected(comments) ==
    IF \E i \in 1..Len(comments) : SelectedInLoop(comments[i])
    THEN CHOOSE i \in 1..Len(comments) :
            /\ SelectedInLoop(comments[i])
            /\ \A j \in 1..(i - 1) : ~SelectedInLoop(comments[j])
    ELSE 0

\* Line 257: a changelog item that set the flag.
SetsFlag(item) ==
    /\ item.field = "Flagged"
    /\ item.toString # PyNone
    /\ NotBlank(item.toString.value)

HistorySetsFlag(history) ==
    \E n \in 1..Len(history.items) : SetsFlag(history.items[n])

\* Lines 254-261: the time of the first history that set the flag.
FlagAddedTime(changelog) ==
    IF changelog = PyNone \/ ~\E h \in 1..Len(changelog.value) : HistorySetsFlag(changelog.value[h])
    THEN PyNone
    ELSE LET h == CHOOSE h \in 1..Len(changelog.value) :
                    /\ HistorySetsFlag(changelog.value[h])
                    /\ \A g \in 1..(h - 1) : ~HistorySetsFlag(changelog.value[g])
         IN Value(changelog.value[h].created)

Abs(x) == IF x < 0 THEN -x ELSE x

\* Lines 266-277: the comment closest to the flag within five minutes, the
\* earlier in the list on a tie; 0 when there is none.
ClosestComment(comments, flag_time) ==
    LET near == { i \in 1..Len(comments) : Abs(flag_time - comments[i].created) <= FlagWindow }
    IN IF near = {} THEN 0
       ELSE CHOOSE i \in near :
              \A j \in near :
                 \/ Abs(flag_time - comments[i].created) < Abs(flag_time - comments[j].created)
                 \/ /\ Abs(flag_time - comments[i].created) = Abs(flag_time - comments[j].created)
                    /\ i <= j

\* The comment get_flagged_comment settles on and the step that chose it:
\* "property" or "mention" (the loop), "closest" (the changelog),
\* "second-to-last", "last", and "description" or "none" without a comment.
Resolve(issue) ==
    LET comments == issue.comments
        first == FirstSelected(comments)
        flag_added_time == IF first = 0 THEN FlagAddedTime(issue.changelog) ELSE PyNone
        closest == IF flag_added_time = PyNone THEN 0
                   ELSE ClosestComment(comments, flag_added_time.value)
    IN IF comments # <<>>
       THEN IF first # 0
            THEN [step |-> IF HasFlagProperty(comments[first]) THEN "property" ELSE "mention",
                  comment |-> first]
            ELSE IF closest # 0
            THEN [step |-> "closest", comment |-> closest]
            ELSE IF Len(comments) >= 2
            THEN [step |-> "second-to-last", comment |-> Len(comments) - 1]
            ELSE [step |-> "last", comment |-> Len(comments)]
       ELSE IF issue.description # PyNone /\ issue.description.value # <<>>
            THEN [step |-> "description", comment |-> 0]
            ELSE [step |-> "none", comment |-> 0]

\* The string returned.
FlaggedCommentText(issue) ==
    LET r == Resolve(issue)
    IN CASE r.step = "description" -> Truncate(issue.description.value)
         [] r.step = "none" -> NoComment
         [] OTHER -> Truncate(BodyOrDefault(issue.comments[r.comment]))

get_flagged_comment(issue) ==
    /\ fn = "idle"
    /\ fn' = "get_flagged_comment"
    /\ args' = [issue |-> issue]
    /\ found' = Resolve(issue)
    /\ result' = Value(FlaggedCommentText(issue))
    /\ UNCHANGED <<issues, now, pc, data, hits, nq, raised, edited>>

\* The issues get_flagged_comment is applied to.
MaxComments == 2
FlagTime == 1000

Comment(properties, body, created) ==
    [properties |-> properties, body |-> body, created |-> created]

CommentPool ==
    { Comment(<<<<"F", "l", "a", "g">>>>, Value(<<"b", "l", "o", "c", "k", "e", "d">>), FlagTime - 1000),
      Comment(<<<<"s", "d", ".", "p", "u", "b", "l", "i", "c">>, <<"x", ".", "A", "g", "i", "l", "e">>>>, Value([n \in 1..(DisplayLimit + 1) |-> "x"]), FlagTime + 20),
      Comment(<<>>, Value(<<"W", "a", "s", " ", "F", "L", "A", "G", "G", "E", "D">>), FlagTime + 900),
      Comment(<<>>, Value(<<"n", "e", "a", "r">>), FlagTime + 10),
      Comment(<<>>, Value(<<"b", "e", "f", "o", "r", "e">>), FlagTime - 10),
      Comment(<<>>, Value(<<"e", "d", "g", "e">>), FlagTime + FlagWindow),
      Comment(<<>>, Value(<<"l", "a", "t", "e">>), FlagTime + FlagWindow + 1),
      Comment(<<<<"s", "d", ".", "p", "u", "b", "l", "i", "c">>>>, Value(<<"a", " ", "f", "l", "a", "g">>), FlagTime - 2000),
      Comment(<<>>, Value(<<>>), FlagTime - 3000) }

CommentLists == UNION { [1..n -> CommentPool] : n \in 0..MaxComments }

Changelogs ==
    { PyNone,
      Value(<< [created |-> FlagTime - 50,
                items |-> << [field |-> "status", toString |-> Value(<<"D", "o", "n", "e">>)] >>],
               [created |-> FlagTime,
                items |-> << [field |-> "Flagged", toString |-> Value(<<"I", "m", "p", "e", "d", "i", "m", "e", "n", "t">>)] >>] >>),
      Value(<< [created |-> FlagTime,
                items |-> << [field |-> "Flagged", toString |-> Value(<<" ">>)],
                             [field |-> "Flagged", toString |-> PyNone] >>] >>) }

Descriptions ==
    { PyNone, Value(<<"d", "e", "s", "c">>), Value([n \in 1..(DisplayLimit + 2) |-> "d"]) }

FlagIssues ==
    [comments : CommentLists, changelog : Changelogs, description : Descriptions]

NextFlag == \E issue \in FlagIssues : get_flagged_comment(issue)

SpecFlag == InitIdle /\ [][NextFlag]_vars

-----------------------------------------------------------------------------
(* load_data_parallel (src/ui/performance.py).  During a call `args` holds
   the arguments, `found` the state of each submitted future in submission
   order, `data` the `results` dict, and `result` what the call returned or
   the exception that left it. *)

Raised(error) == [tag |-> "raised", error |-> error]

\* A callable: it returns `value` or raises an Exception.
Callable(outcome, value) == [outcome |-> outcome, value |-> value]

\* Lines 40-47: task_list from `tasks` and `*args_tasks`.  A call in the
\* list format passes tasks = [t1, ...]; one in the legacy format passes
\* the tuples themselves, so `tasks` is the first of them, or None.
TaskList(style, tuples) ==
    IF style = "list"
    THEN [i \in 1..Len(tuples) |->
            IF Len(tuples[i]) = 3 THEN tuples[i]
            ELSE <<tuples[i][1], tuples[i][2], <<>>>>]
    ELSE tuples

\* (mutant: a pool of as many workers as there are tasks)
MaxWorkersUncapped(task_list) == Len(task_list)
\* Line 49: max_workers=min(3, len(task_list))
MaxWorkers(task_list) == IF 3 < Len(task_list) THEN 3 ELSE Len(task_list)

NameOfTask(task) == task[1]
CallableOfTask(task) == task[2]

RunningFutures == { i \in 1..Len(found) : found[i] = "running" }

\* Lines 35-59: the call up to the end of the submit loop.  An executor of
\* no worker is refused by ThreadPoolExecutor with a ValueError.
load_data_parallel(style, tuples) ==
    /\ fn = "idle"
    /\ fn' = "load_data_parallel"
    /\ LET task_list == TaskList(style, tuples)
       IN /\ args' = [style |-> style, tasks |-> tuples, task_list |-> task_list]
          /\ IF MaxWorkers(task_list) <= 0
             THEN /\ result' = Raised("ValueError")
                  /\ UNCHANGED <<found, data>>
             ELSE /\ found' = [i \in 1..Len(task_list) |-> "queued"]
                  /\ data' = <<>>
                  /\ UNCHANGED result
    /\ UNCHANGED <<issues, now, pc, hits, nq, raised, edited>>

PoolRunning == fn = "load_data_parallel" /\ result = Pending

\* A worker thread of the executor takes the oldest queued work item.
WorkerStarts(i) ==
    /\ PoolRunning
    /\ i \in 1..Len(found)
    /\ found[i] = "queued"
    /\ \A j \in 1..(i - 1) : found[j] # "queued"
    /\ Cardinality(RunningFutures) < MaxWorkers(args.task_list)
    /\ found' = [found EXCEPT ![i] = "running"]
    /\ UNCHANGED <<issues, now, fn, args, pc, data, result, hits, nq, raised, edited>>

\* The callable returns or raises in its worker: the future is done.
TaskFinishes(i) ==
    /\ PoolRunning
    /\ i \in RunningFutures
    /\ found' = [found EXCEPT ![i] = "done"]
    /\ UNCHANGED <<issues, now, fn, args, pc, data, result, hits, nq, raised, edited>>

\* dict[key] = value
SetItem(d, key, value) ==
    [k \in DOMAIN d \cup {key} |-> IF k = key THEN value ELSE d[k]]

\* future.result() of lines 64-70: the value, or None for an Exception.
ResultOrNone(callable) ==
    IF callable.outcome = "returns" THEN Value(callable.value) ELSE PyNone

\* Lines 62-72: as_completed hands the main thread a future that is done and
\* the loop body stores its entry; after the last one the executor is shut
\* down and `results` returned.
Collect(i) ==
    /\ PoolRunning
    /\ i \in 1..Len(found)
    /\ found[i] = "done"
    /\ found' = [found EXCEPT ![i] = "collected"]
    /\ data' = SetItem(data, NameOfTask(args.task_list[i]),
                       ResultOrNone(CallableOfTask(args.task_list[i])))
    /\ IF \A j \in 1..Len(found) : found'[j] = "collected"
       THEN result' = Value(data')
       ELSE UNCHANGED result
    /\ UNCHANGED <<issues, now, fn, args, pc, hits, nq, raised, edited>>

\* The task lists of the model: up to MaxTasks tasks; the task at position i
\* has a name of its own or the name "shared", returns i or raises, and is
\* written as a pair or as a triple with empty arguments.
MaxTasks == 3

TaskNames == <<"t1", "t2", "t3", "t4", "t5", "t6">>

TasksAt(i, form) ==
    { IF form = 2 THEN <<name, Callable(outcome, i)>>
      ELSE <<name, Callable(outcome, i), <<>>>> :
        name \in {TaskNames[i], "shared"}, outcome \in {"returns", "raises"} }

TupleLists(form) ==
    UNION { { t \in [1..n -> UNION { TasksAt(i, form) : i \in 1..n }] :
                \A i \in 1..n : t[i] \in TasksAt(i, form) } : n \in 0..MaxTasks }

NextPool ==
    \/ /\ fn = "idle"
       /\ \E style \in {"list", "varargs"}, form \in {2, 3} :
            \E tuples \in TupleLists(form) : load_data_parallel(style, tuples)
    \/ \E i \in 1..MaxTasks : WorkerStarts(i)
    \/ \E i \in 1..MaxTasks : TaskFinishes(i)
    \/ \E i \in 1..MaxTasks : Collect(i)

SpecPool == InitIdle /\ [][NextPool]_vars

\* More tasks than workers: up to MaxQueued tasks of distinct names in the
\* list format, each returning or raising.  The worker threads keep taking
\* work while there is some, every callable comes to an end, and the main
\* thread keeps collecting.
MaxQueued == 4

QueuedLists ==
    UNION { { t \in [1..n -> UNION { TasksAt(i, 2) : i \in 1..n }] :
                \A i \in 1..n : t[i] \in TasksAt(i, 2) /\ NameOfTask(t[i]) = TaskNames[i] } :
            n \in 0..MaxQueued }

NextWorkers ==
    \/ /\ fn = "idle"
       /\ \E tuples \in QueuedLists : load_data_parallel("list", tuples)
    \/ \E i \in 1..MaxQueued : WorkerStarts(i)
    \/ \E i \in 1..MaxQueued : TaskFinishes(i)
    \/ \E i \in 1..MaxQueued : Collect(i)

SpecWorkers ==
    /\ InitIdle
    /\ [][NextWorkers]_vars
    /\ WF_vars(\E i \in 1..MaxQueued : WorkerStarts(i))
    /\ WF_vars(\E i \in 1..MaxQueued : TaskFinishes(i))
    /\ WF_vars(\E i \in 1..MaxQueued : Collect(i))

-----------------------------------------------------------------------------
(* get_flagged_issues under @st.cache_data(ttl=CACHE_TTL).  Renders run in
   threads of their own.  `now` is the clock in seconds, `data` the cache of
   the function (key -> entry), `found` the position of each render inside
   the cached call, `hits` the log of the executions of the function body,
   `nq` their number, `result` the last value a render obtained. *)

CACHE_TTL == 300

Renders == {"r1", "r2"}
Handles == {"jira1", "jira2"}
ProjectKey == "PRJ"

\* (mutant: the gateway handle is hashed into the key)
CacheKeyWithHandle(jira, project_key, component_name) ==
    <<jira, project_key, component_name>>
\* The key st.cache_data makes of the arguments: `_jira`, whose name starts
\* with an underscore, is left out.
CacheKey(jira, project_key, component_name) == <<project_key, component_name>>

AllCacheKeys ==
    { CacheKey(h, ProjectKey, c) : h \in Handles, c \in {"Search", "Reports"} }

\* An entry is served until CACHE_TTL seconds after it was written.
Fresh(key) == data[key] # PyNone /\ now < data[key].value.written + CACHE_TTL

NotInCall == [pc |-> "idle"]

\* Lines 481-506, the function body against the gateway's answer: None when
\* the component is not found, when a gateway call raises and when the
\* search finds nothing, the issue list otherwise (named by the number of
\* the execution that fetched it).
FlaggedIssuesBody(component_name, answer, n) ==
    IF FindComponent(component_name) = PyNone THEN PyNone
    ELSE IF answer = "issues" THEN Value(n)
    ELSE PyNone

\* What a render obtained, and how.
Obtained(jira, component_name, value, via) ==
    [jira |-> jira, component_name |-> component_name, value |-> value, via |-> via,
     executions |-> Len(hits)]

\* The cached call: a hit returns the entry's value; a miss goes for the
\* key's compute lock.
CallFlaggedIssues(r, jira, component_name) ==
    /\ found[r].pc = "idle"
    /\ LET key == CacheKey(jira, ProjectKey, component_name)
       IN IF Fresh(key)
          THEN /\ result' = Obtained(jira, component_name, data[key].value.value, "hit")
               /\ UNCHANGED found
          ELSE /\ found' = [found EXCEPT ![r] =
                               [pc |-> "miss", key |-> key, jira |-> jira,
                                component_name |-> component_name]]
               /\ UNCHANGED result
    /\ UNCHANGED <<issues, now, fn, args, pc, data, hits, nq, raised, edited>>

\* With the lock the cache is read again: an entry written meanwhile is
\* returned, otherwise the function body starts and queries the gateway.
AcquireComputeLock(r, answer) ==
    /\ found[r].pc = "miss"
    /\ \A o \in Renders : found[o].pc = "computing" => found[o].key # found[r].key
    /\ LET key == found[r].key
       IN IF Fresh(key)
          THEN /\ result' = Obtained(found[r].jira, found[r].component_name,
                                       data[key].value.value, "hit")
               /\ found' = [found EXCEPT ![r] = NotInCall]
               /\ UNCHANGED <<hits, nq>>
          ELSE /\ nq' = nq + 1
               /\ hits' = Append(hits,
                     [component_name |-> found[r].component_name, at |-> now,
                      jira |-> found[r].jira, answer |-> answer,
                      value |-> FlaggedIssuesBody(found[r].component_name, answer, nq')])
               /\ found' = [found EXCEPT ![r] =
                              [pc |-> "computing", key |-> key, execution |-> nq']]
               /\ UNCHANGED result
    /\ UNCHANGED <<issues, now, fn, args, pc, data, raised, edited>>

\* The body returns: its value is written to the cache, then handed out.
WriteResult(r) ==
    /\ found[r].pc = "computing"
    /\ LET key == found[r].key
           value == hits[found[r].execution].value
       IN /\ data' = [data EXCEPT ![key] = Value([value |-> value, written |-> now])]
          /\ result' = Obtained(hits[found[r].execution].jira,
                                 hits[found[r].execution].component_name, value, "computed")
    /\ found' = [found EXCEPT ![r] = NotInCall]
    /\ UNCHANGED <<issues, now, fn, args, pc, hits, nq, raised, edited>>

\* Time passes.
ClockStep == 150
MaxNow == 450
MaxExecutions == 2

Tick ==
    /\ now + ClockStep <= MaxNow
    /\ now' = now + ClockStep
    /\ UNCHANGED <<issues, fn, args, pc, data, found, result, hits, nq, raised, edited>>

InitCache ==
    /\ issues = <<>>
    /\ now = 0
    /\ fn = "get_flagged_issues"
    /\ args = <<>>
    /\ pc = 0
    /\ data = [key \in AllCacheKeys |-> PyNone]
    /\ found = [r \in Renders |-> NotInCall]
    /\ result = Pending
    /\ hits = <<>>
    /\ nq = 0
    /\ raised = "no"
    /\ edited = FALSE

NextCache ==
    \/ \E r \in Renders, jira \in Handles, c \in {"Search", "Reports"} :
         CallFlaggedIssues(r, jira, c)
    \/ \E r \in Renders, answer \in {"issues", "raises"} :
         nq < MaxExecutions /\ AcquireComputeLock(r, answer)
    \/ \E r \in Renders : WriteResult(r)
    \/ Tick

SpecCache == InitCache /\ [][NextCache]_vars

-----------------------------------------------------------------------------
(* One render of a dashboard page: render_home_page, render_sprint_status_page
   or render_component_capability_page.  `fn` is the page, `pc` the gateway
   function it calls next, `args.jira` the handle get_jira_connection gave,
   `found` the gateway functions called so far, `data` what the page has
   shown, `hits` the answers the page got, `result` Pending until the render
   function returns. *)

Pages == {"home", "sprint_status", "component_capability"}

NoAnswers ==
    [probe |-> "none", status |-> "none", historical |-> "none"]

Rendered == Value("rendered")

\* The page up to the connection: the refresh button and get_jira_connection,
\* which gives a handle or None.
RenderPage(page, jira) ==
    /\ fn = "idle"
    /\ fn' = page
    /\ args' = [jira |-> jira]
    /\ pc' = "validate"
    /\ found' = <<>>
    /\ data' = {}
    /\ hits' = NoAnswers
    /\ UNCHANGED <<issues, now, result, nq, raised, edited>>

\* (mutant: a raising probe is not taken for a failure)
ValidateIgnoresProbe(jira, probe) == jira # PyNone
\* validate_jira_connection: False for no handle and for a raising
\* jira.current_user().
validate_jira_connection(jira, probe) == jira # PyNone /\ probe = "ok"

AfterValidation(page) == IF page = "home" THEN "project_info" ELSE "active_sprint"

\* The validation and the `if not is_connected` that follows it.
ValidateConnection(probe) ==
    /\ fn \in Pages /\ result = Pending
    /\ pc = "validate"
    /\ found' = (IF args.jira = PyNone THEN found ELSE Append(found, "current_user"))
    /\ hits' = [hits EXCEPT !.probe = IF args.jira = PyNone THEN "none" ELSE probe]
    /\ IF validate_jira_connection(args.jira, probe)
       THEN /\ pc' = AfterValidation(fn)
            /\ UNCHANGED <<data, result>>
       ELSE /\ data' = data \cup {"connection failed"}
            /\ result' = Rendered
            /\ UNCHANGED pc
    /\ UNCHANGED <<issues, now, fn, args, nq, raised, edited>>

\* home: get_project_info; without it the page ends.
ProjectInfo(answer) ==
    /\ fn = "home" /\ result = Pending
    /\ pc = "project_info"
    /\ found' = Append(found, "get_project_info")
    /\ IF answer = "ok"
       THEN /\ data' = data \cup {"project"}
            /\ pc' = "active_sprint"
            /\ UNCHANGED result
       ELSE /\ data' = data \cup {"failed to retrieve project information"}
            /\ result' = Rendered
            /\ UNCHANGED pc
    /\ UNCHANGED <<issues, now, fn, args, hits, nq, raised, edited>>

\* get_active_sprint: a sprint, or None (no active sprint, or the call
\* raised).  The capability page ends without a sprint; home skips the
\* component counts; the sprint status page goes on with sprint_id None.
ActiveSprint(answer) ==
    /\ fn \in Pages /\ result = Pending
    /\ pc = "active_sprint"
    /\ found' = Append(found, "get_active_sprint")
    /\ CASE fn = "home" ->
              /\ data' = data \cup {IF answer = "ok" THEN "sprint" ELSE "no active sprint"}
              /\ pc' = (IF answer = "ok" THEN "components_count" ELSE "release_versions")
              /\ UNCHANGED result
         [] fn = "sprint_status" ->
              /\ pc' = "component_details"
              /\ UNCHANGED <<data, result>>
         [] fn = "component_capability" ->
              IF answer = "ok"
              THEN /\ pc' = "status"
                   /\ UNCHANGED <<data, result>>
              ELSE /\ data' = data \cup {"no active sprint"}
                   /\ result' = Rendered
                   /\ UNCHANGED pc
    /\ UNCHANGED <<issues, now, fn, args, hits, nq, raised, edited>>

\* home: get_components_issues_count, then get_release_versions.
ComponentsCount(answer) ==
    /\ fn = "home" /\ result = Pending
    /\ pc = "components_count"
    /\ found' = Append(found, "get_components_issues_count")
    /\ data' = data \cup {IF answer = "ok" THEN "components" ELSE "no component issues"}
    /\ pc' = "release_versions"
    /\ UNCHANGED <<issues, now, fn, args, result, hits, nq, raised, edited>>

ReleaseVersions(answer) ==
    /\ fn = "home" /\ result = Pending
    /\ pc = "release_versions"
    /\ found' = Append(found, "get_release_versions")
    /\ data' = data \cup {IF answer = "ok" THEN "releases" ELSE "no releases"}
    /\ result' = Rendered
    /\ UNCHANGED <<issues, now, fn, args, pc, hits, nq, raised, edited>>

\* sprint status: get_component_details through load_data_parallel.
ComponentDetails(answer) ==
    /\ fn = "sprint_status" /\ result = Pending
    /\ pc = "component_details"
    /\ found' = Append(found, "get_component_details")
    /\ data' = data \cup {IF answer = "ok" THEN "component metrics" ELSE "no component details"}
    /\ result' = Rendered
    /\ UNCHANGED <<issues, now, fn, args, pc, hits, nq, raised, edited>>

\* What a gateway function that reports its exceptions with st.error leaves
\* on the page when it raises.
ErrorOf(f, answer) == IF answer = "raises" THEN {"error: " \o f} ELSE {}

\* Lines 278-282 and 664-665: the current matrix; with None (the function
\* raised, or found no such component) the page shows its error and ends.
CapabilityStatus(answer) ==
    /\ fn = "component_capability" /\ result = Pending
    /\ pc = "status"
    /\ found' = Append(found, "get_component_capability_status")
    /\ hits' = [hits EXCEPT !.status = answer]
    /\ IF answer = "ok"
       THEN /\ pc' = "historical"
            /\ UNCHANGED <<data, result>>
       ELSE /\ data' = data \cup ErrorOf("status", answer)
                            \cup {"unable to fetch capability status"}
            /\ result' = Rendered
            /\ UNCHANGED pc
    /\ UNCHANGED <<issues, now, fn, args, nq, raised, edited>>

\* Lines 284-335: the historical matrix, the table (with the trend arrows
\* when there is a historical matrix) and the summary.
Historical(answer) ==
    /\ fn = "component_capability" /\ result = Pending
    /\ pc = "historical"
    /\ found' = Append(found, "get_component_capability_status_historical")
    /\ hits' = [hits EXCEPT !.historical = answer]
    /\ data' = data \cup ErrorOf("historical", answer) \cup {"table", "summary"}
                    \cup (IF answer = "ok" THEN {"trend"} ELSE {})
    /\ pc' = "sprint_details"
    /\ UNCHANGED <<issues, now, fn, args, result, nq, raised, edited>>

\* Lines 339-588: get_critical_high_issues for the sprint, then for the
\* backlog; a table for a list, a note for None.
CriticalHigh(answer) ==
    /\ fn = "component_capability" /\ result = Pending
    /\ pc \in {"sprint_details", "backlog_details"}
    /\ found' = Append(found, "get_critical_high_issues")
    /\ data' = data \cup ErrorOf(pc, answer)
                    \cup (IF answer = "ok" THEN {pc \o " table"} ELSE {"no " \o pc})
    /\ pc' = (IF pc = "sprint_details" THEN "backlog_details" ELSE "flagged")
    /\ UNCHANGED <<issues, now, fn, args, result, hits, nq, raised, edited>>

\* Lines 592-662: get_flagged_issues; the page is complete.
FlaggedIssues(answer) ==
    /\ fn = "component_capability" /\ result = Pending
    /\ pc = "flagged"
    /\ found' = Append(found, "get_flagged_issues")
    /\ data' = data \cup ErrorOf("flagged", answer)
                    \cup (IF answer = "ok" THEN {"flagged table"} ELSE {"no flagged issues"})
    /\ result' = Rendered
    /\ UNCHANGED <<issues, now, fn, args, pc, hits, nq, raised, edited>>

\* The next render starts.
NextRender ==
    /\ fn \in Pages /\ result # Pending
    /\ fn' = "idle"
    /\ args' = <<>>
    /\ pc' = 0
    /\ found' = <<>>
    /\ data' = EmptyMatrix
    /\ hits' = EmptyMatrix
    /\ result' = Pending
    /\ UNCHANGED <<issues, now, nq, raised, edited>>

Answers == {"ok", "none", "raises"}

NextPage ==
    \/ \E page \in Pages, jira \in {PyNone, Value("jira")} : RenderPage(page, jira)
    \/ \E probe \in {"ok", "raises"} : ValidateConnection(probe)
    \/ \E answer \in Answers : ProjectInfo(answer)
    \/ \E answer \in Answers : ActiveSprint(answer)
    \/ \E answer \in Answers : ComponentsCount(answer)
    \/ \E answer \in Answers : ReleaseVersions(answer)
    \/ \E answer \in Answers : ComponentDetails(answer)
    \/ \E answer \in Answers : CapabilityStatus(answer)
    \/ \E answer \in Answers : Historical(answer)
    \/ \E answer \in Answers : CriticalHigh(answer)
    \/ \E answer \in Answers : FlaggedIssues(answer)
    \/ NextRender

SpecPage == InitIdle /\ [][NextPage]_vars

-----------------------------------------------------------------------------
(* get_target_completion_date.  An end date is a string of one of four
   kinds: an ISO timestamp ("2024-05-17T09:00:00.000Z"), a plain date
   ("2024-05-17"), a timestamp no calendar has ("2024-13-45T00:00:00"), a
   short text ("soon"); `day` tells the dates of the model apart. *)

EndDate(kind, day) == [kind |-> kind, day |-> day]

Missing == [kind |-> "missing"]

\* `if x:` for a field value: None, a missing attribute and '' are falsy.
Truthy(x) == x # PyNone /\ x # Missing

\* Sprint data as the gateway hands it out: an object with an endDate
\* attribute, a dict (with or without the key), a string (in which
\* endDate=... is found or not), or a list of these.
SprintData(kind, endDate) == [kind |-> kind, endDate |-> endDate]
SprintList(items) == [kind |-> "list", items |-> items]

\* Lines 71-72 and 103-104: the first element of a non-empty list.
FirstOfList(sprint_data) ==
    IF sprint_data.kind = "list" /\ Len(sprint_data.items) > 0
    THEN sprint_data.items[1]
    ELSE sprint_data

\* Lines 64-86: issue.fields.sprint.
EndDateOfSprintField(field) ==
    IF ~Truthy(field) THEN PyNone
    ELSE LET sprint_data == FirstOfList(field)
         IN CASE sprint_data.kind = "object" -> sprint_data.endDate
              [] sprint_data.kind = "dict" /\ sprint_data.endDate # Missing -> sprint_data.endDate
              [] sprint_data.kind = "str" /\ sprint_data.endDate # Missing -> sprint_data.endDate
              [] OTHER -> PyNone

\* Lines 95-125: one of the candidate custom fields.
EndDateOfCustomField(field) ==
    IF ~Truthy(field) THEN PyNone
    ELSE LET sprint_data == FirstOfList(field)
             from_object == IF sprint_data.kind = "object" THEN sprint_data.endDate ELSE PyNone
             from_dict == IF ~Truthy(from_object) /\ sprint_data.kind = "dict"
                          THEN (IF sprint_data.endDate = Missing THEN PyNone
                                ELSE sprint_data.endDate)
                          ELSE from_object
         IN IF ~Truthy(from_dict) /\ sprint_data.kind = "str" /\ sprint_data.endDate # Missing
            THEN sprint_data.endDate
            ELSE from_dict

\* Lines 35-57: the REST lookup of customfield_10020.  `rest` is what the
\* gateway answers: "raises", a status other than 200, or the field's value.
EndDateOfRest(jira, base_url, rest) ==
    IF jira = PyNone \/ base_url = PyNone THEN PyNone
    ELSE IF rest.answer # "200" THEN PyNone
    ELSE IF ~Truthy(rest.customfield_10020) THEN PyNone
    ELSE LET sprint_field == rest.customfield_10020
         IN IF sprint_field.kind = "list" /\ Len(sprint_field.items) > 0
               /\ sprint_field.items[1].kind = "dict"
               /\ sprint_field.items[1].endDate # Missing
            THEN sprint_field.items[1].endDate
            ELSE PyNone

\* (mutant: customfield_10001 tried before customfield_10010)
SprintFieldIdsReordered ==
    <<"customfield_10001", "customfield_10010", "customfield_10006", "customfield_10007">>
\* Line 92
sprint_field_ids ==
    <<"customfield_10010", "customfield_10001", "customfield_10006", "customfield_10007">>

\* Lines 94-128: the first candidate field that gives an end date.
RECURSIVE EndDateOfCustomFields(_, _)
EndDateOfCustomFields(fields, n) ==
    IF n > Len(sprint_field_ids) THEN PyNone
    ELSE LET sprint_end_date == EndDateOfCustomField(fields[sprint_field_ids[n]])
         IN IF Truthy(sprint_end_date) THEN sprint_end_date
            ELSE EndDateOfCustomFields(fields, n + 1)

\* Lines 32-128: sprint_end_date after the probes.
SprintEndDate(issue, jira, base_url, rest) ==
    LET from_rest == EndDateOfRest(jira, base_url, rest)
        from_sprint == IF Truthy(from_rest) THEN from_rest
                       ELSE EndDateOfSprintField(issue.fields.sprint)
    IN IF Truthy(from_sprint) THEN from_sprint
       ELSE EndDateOfCustomFields(issue.fields, 1)

\* Lines 135-160: the first ten characters of a timestamp or date become
\* the date shown; a string shorter than that, or one datetime.fromisoformat
\* rejects, is shown as it is.  The hint "(Sprint Date)" is appended.
FormatSprintDate(sprint_end_date) ==
    [text |-> IF sprint_end_date.kind \in {"iso", "date"}
              THEN EndDate("date", sprint_end_date.day)
              ELSE sprint_end_date,
     hint |-> "(Sprint Date)"]

\* 'N/A', written as the other texts are.
NotAvailable == [text |-> [kind |-> "N/A", day |-> 0], hint |-> ""]

\* The exception inside the call, if any: the issue has no duedate
\* attribute (the outer handler), the REST lookup raises, the end date
\* cannot be parsed.
ExceptionIn(issue, jira, base_url, rest) ==
    IF issue.fields.duedate = Missing THEN "duedate"
    ELSE IF Truthy(issue.fields.duedate) THEN "no"
    ELSE IF jira # PyNone /\ base_url # PyNone /\ rest.answer = "raises" THEN "rest"
    ELSE LET e == SprintEndDate(issue, jira, base_url, rest)
         IN IF Truthy(e) /\ e.kind = "bad" THEN "format" ELSE "no"

\* The value returned (debug=False).
TargetCompletionDate(issue, jira, base_url, rest) ==
    IF issue.fields.duedate = Missing THEN NotAvailable
    ELSE IF Truthy(issue.fields.duedate)
    THEN [text |-> issue.fields.duedate, hint |-> ""]
    ELSE LET sprint_end_date == SprintEndDate(issue, jira, base_url, rest)
         IN IF Truthy(sprint_end_date) THEN FormatSprintDate(sprint_end_date)
            ELSE NotAvailable

get_target_completion_date(issue, jira, base_url, rest) ==
    /\ fn = "idle"
    /\ fn' = "get_target_completion_date"
    /\ args' = [issue |-> issue, jira |-> jira, base_url |-> base_url, rest |-> rest]
    /\ result' = Value(TargetCompletionDate(issue, jira, base_url, rest))
    /\ nq' = (IF Truthy(issue.fields.duedate) \/ issue.fields.duedate = Missing
                 \/ jira = PyNone \/ base_url = PyNone
              THEN 0 ELSE 1)
    /\ raised' = ExceptionIn(issue, jira, base_url, rest)
    /\ UNCHANGED <<issues, now, pc, data, found, hits, edited>>

\* The issues of the model: each place holds nothing or sprint data whose
\* end date is the place's own day, all end dates being of one kind.
DateKinds == {"iso", "date", "bad", "short"}

ShapesOf(e) ==
    { PyNone, SprintData("object", e), SprintData("dict", e), SprintData("str", e) }

MoreShapesOf(e) ==
    ShapesOf(e) \cup { SprintData("object", PyNone), SprintData("dict", Missing),
                       SprintList(<<SprintData("dict", e)>>), SprintList(<<>>) }

TargetIssues(kind) ==
    { [key |-> 1,
       fields |-> [duedate |-> due, sprint |-> sp,
                   customfield_10010 |-> c1, customfield_10001 |-> c2,
                   customfield_10006 |-> c3, customfield_10007 |-> c4]] :
        due \in {PyNone, Missing, EndDate("date", 0)},
        sp \in MoreShapesOf(EndDate(kind, 2)),
        c1 \in ShapesOf(EndDate(kind, 3)), c2 \in ShapesOf(EndDate(kind, 4)),
        c3 \in {PyNone, SprintData("str", EndDate(kind, 5))},
        c4 \in {PyNone, SprintData("object", EndDate(kind, 6))} }

RestAnswers(kind) ==
    { [answer |-> "raises"], [answer |-> "404"],
      [answer |-> "200", customfield_10020 |-> PyNone],
      [answer |-> "200", customfield_10020 |-> SprintList(<<SprintData("dict", EndDate(kind, 1))>>)],
      [answer |-> "200", customfield_10020 |-> SprintList(<<SprintData("dict", Missing)>>)] }

NextTarget ==
    /\ fn = "idle"
    /\ \E kind \in DateKinds :
         \E issue \in TargetIssues(kind), rest \in RestAnswers(kind),
            jira \in {PyNone, Value("jira")} :
              get_target_completion_date(issue, jira, Value("https://jira"), rest)

SpecTarget == InitIdle /\ [][NextTarget]_vars

-----------------------------------------------------------------------------
(* get_resolution_approach.  The field customfield_11249 is missing, None,
   a string, a dict (with a 'value' or a 'name' key or neither) or a value
   of another type; `repr` is what str() gives for it. *)

ResolutionLimit == 500

\* s.strip()
Strip(s) ==
    IF ~NotBlank(s) THEN <<>>
    ELSE LET first == CHOOSE i \in 1..Len(s) :
                        s[i] # " " /\ \A j \in 1..(i - 1) : s[j] = " "
             last == CHOOSE i \in 1..Len(s) :
                        s[i] # " " /\ \A j \in (i + 1)..Len(s) : s[j] = " "
         IN SubSeq(s, first, last)

\* str(x) of a dict entry: 'None' for None.
StrOf(x) == IF x = PyNone THEN <<"N", "o", "n", "e">> ELSE x.value

\* Lines 185-214: the text returned.
ResolutionApproach(field) ==
    LET NA == <<"N", "/", "A">>
        cut(s) == SubSeq(s, 1, IF Len(s) > ResolutionLimit THEN ResolutionLimit ELSE Len(s))
        val_str == Strip(field.repr)
        other == IF val_str # <<>> /\ LowerText(val_str) # <<"n", "o", "n", "e">>
                 THEN cut(val_str) ELSE NA
    IN IF field = Missing \/ field = PyNone THEN NA
       ELSE IF ~field.truthy THEN NA
       ELSE IF field.kind = "str"
       THEN (IF Strip(field.repr) # <<>> THEN cut(Strip(field.repr)) ELSE other)
       ELSE IF field.kind = "dict" /\ field.value # Missing
       THEN cut(Strip(StrOf(field.value)))
       ELSE IF field.kind = "dict" /\ field.name # Missing
       THEN cut(Strip(StrOf(field.name)))
       ELSE other

get_resolution_approach(issue) ==
    /\ fn = "idle"
    /\ fn' = "get_resolution_approach"
    /\ args' = [issue |-> issue]
    /\ result' = Value(ResolutionApproach(issue.fields.customfield_11249))
    /\ UNCHANGED <<issues, now, pc, data, found, hits, nq, raised, edited>>

\* The texts of the model: a body between no or one blank on either side.
ResolutionTexts ==
    { lead \o body \o trail :
        lead \in {<<>>, <<" ">>}, trail \in {<<>>, <<" ">>},
        body \in { <<>>, <<"o", "k">>, <<"N", "o", "n", "e">>, <<"a", " ", "b">>,
                   [n \in 1..ResolutionLimit |-> "x"],
                   [n \in 1..(ResolutionLimit + 1) |-> "x"] } }

ResolutionFields ==
    { Missing, PyNone }
    \cup { [kind |-> "str", truthy |-> t # <<>>, repr |-> t] : t \in ResolutionTexts }
    \cup { [kind |-> "other", truthy |-> b, repr |-> t] :
              t \in ResolutionTexts \ {<<>>}, b \in BOOLEAN }
    \cup { [kind |-> "dict", truthy |-> TRUE, repr |-> <<"{", ".", "}">>,
            value |-> v, name |-> n] :
              v \in {Missing, PyNone} \cup { Value(t) : t \in ResolutionTexts },
              n \in {Missing, Value(<<"n", "m">>), Value(<<>>)} }
    \cup { [kind |-> "dict", truthy |-> FALSE, repr |-> <<"{", "}">>,
            value |-> Missing, name |-> Missing] }

NextResolution ==
    /\ fn = "idle"
    /\ \E field \in ResolutionFields :
         get_resolution_approach([key |-> 1, fields |-> [customfield_11249 |-> field]])

SpecResolution == InitIdle /\ [][NextResolution]_vars

-----------------------------------------------------------------------------
(* The Parent EPIC cell of a row of the detail tables
   (render_component_capability_page, the same code in the sprint and the
   backlog table).  A link field holds nothing, an object with a key
   attribute, a dict (with or without 'key') or a plain string. *)

\* hasattr(x, 'key') / isinstance(x, dict) and 'key' in x
KeyOf(x) ==
    CASE x.kind = "object" -> x.key
      [] x.kind = "dict" /\ x.key # Missing -> x.key
      [] OTHER -> PyNone

\* (mutant: customfield_10011 tried before customfield_10014)
EpicFieldIdsReordered == <<"customfield_10011", "customfield_10014", "customfield_10051">>
\* Lines 423 and 549
epic_field_ids == <<"customfield_10014", "customfield_10011", "customfield_10051">>

\* Lines 423-436: the loop over the candidate fields, entered with the
\* key found so far.
RECURSIVE EpicLinkKey(_, _, _)
EpicLinkKey(fields, n, parent_epic_key) ==
    IF n > Len(epic_field_ids) THEN parent_epic_key
    ELSE LET epic_obj == fields[epic_field_ids[n]]
             key == IF Truthy(epic_obj) /\ epic_obj.kind \in {"object", "dict"}
                       /\ ~(epic_obj.kind = "dict" /\ epic_obj.key = Missing)
                    THEN KeyOf(epic_obj)
                    ELSE parent_epic_key
         IN IF Truthy(epic_obj) /\ Truthy(key) THEN key
            ELSE EpicLinkKey(fields, n + 1, key)

\* Lines 408-436: parent_epic_key.
ParentEpicKey(issue) ==
    LET parent == issue.fields.parent
        from_parent == IF Truthy(parent) THEN KeyOf(parent) ELSE PyNone
    IN IF Truthy(from_parent) THEN from_parent
       ELSE EpicLinkKey(issue.fields, 1, from_parent)

\* Lines 438-450: the cell of one row; `answer` is what jira.issue gives for
\* the epic: it raises, or an issue with a summary or with an empty one.
parent_epic_link(issue, answer) ==
    LET parent_epic_key == ParentEpicKey(issue)
    IN /\ fn = "idle"
       /\ fn' = "parent_epic_link"
       /\ args' = [issue |-> issue, answer |-> answer]
       /\ IF Truthy(parent_epic_key)
          THEN /\ nq' = 1
               /\ found' = <<parent_epic_key>>
               /\ raised' = (IF answer = "raises" THEN "issue" ELSE "no")
               /\ result' = Value([key |-> parent_epic_key,
                                   name |-> IF answer = "summary"
                                            THEN Value("summary of " \o parent_epic_key.value)
                                            ELSE parent_epic_key])
          ELSE /\ nq' = 0
               /\ found' = <<>>
               /\ raised' = "no"
               /\ result' = Value("N/A")
       /\ UNCHANGED <<issues, now, pc, data, hits, edited>>

EpicIssues ==
    { [key |-> 1,
       fields |-> [parent |-> p, customfield_10014 |-> c1,
                   customfield_10011 |-> c2, customfield_10051 |-> c3]] :
        p \in { Missing, PyNone, [kind |-> "object", key |-> Value("E0")],
                [kind |-> "dict", key |-> Value("E0")], [kind |-> "dict", key |-> Missing],
                [kind |-> "object", key |-> PyNone] },
        c1 \in { Missing, PyNone, [kind |-> "object", key |-> Value("E1")],
                 [kind |-> "dict", key |-> Value("E1")], [kind |-> "str", text |-> "E1"] },
        c2 \in { PyNone, [kind |-> "object", key |-> Value("E2")],
                 [kind |-> "object", key |-> PyNone] },
        c3 \in { PyNone, [kind |-> "dict", key |-> Value("E3")] } }

NextEpic ==
    /\ fn = "idle"
    /\ \E issue \in EpicIssues, answer \in {"summary", "empty summary", "raises"} :
         parent_epic_link(issue, answer)

SpecEpic == InitIdle /\ [][NextEpic]_vars

-----------------------------------------------------------------------------
(* src/auth/token_storage.py.  `data` is the disk: whether the directory
   .auth_tokens exists and the token files in it by name; `found` remembers,
   per (provider, email), the token_data last saved under that very pair and
   not deleted or cleared since; `nq` counts the calls. *)

MaxCalls == 4

\* str.replace(old, new) for a one-character `old`.
RECURSIVE Replace(_, _, _)
Replace(s, old, new) ==
    IF s = <<>> THEN <<>>
    ELSE (IF Head(s) = old THEN new ELSE <<Head(s)>>) \o Replace(Tail(s), old, new)

\* Lines 36-38: f"{provider}_{safe_email}.json"
TokenFileName(provider, user_email) ==
    LET safe_email == Replace(Replace(user_email, "@", <<"_", "a", "t", "_">>), ".", <<"_">>)
    IN provider \o <<"_">> \o safe_email \o <<".", "j", "s", "o", "n">>

\* Lines 74-86: what load_token reads from the disk.
LoadedToken(provider, user_email) ==
    LET filepath == TokenFileName(provider, user_email)
    IN IF data.dir /\ filepath \in DOMAIN data.files
       THEN data.files[filepath].token_data
       ELSE PyNone

TokenCall(name, a, value) ==
    /\ nq < MaxCalls
    /\ nq' = nq + 1
    /\ fn' = name
    /\ args' = a
    /\ result' = Value(value)
    /\ UNCHANGED <<issues, now, pc, hits, raised, edited>>

\* `io` tells whether open(filepath, 'w') raises.
save_token(provider, user_email, token_data, io) ==
    /\ TokenCall("save_token",
                 [provider |-> provider, user_email |-> user_email, token_data |-> token_data],
                 io = "ok")
    /\ IF io = "ok"
       THEN /\ data' = [dir |-> TRUE,
                        files |-> (TokenFileName(provider, user_email) :>
                                      [provider |-> provider, user_email |-> user_email,
                                       token_data |-> token_data])
                                  @@ data.files]
            /\ found' = [found EXCEPT ![<<provider, user_email>>] = token_data]
       ELSE /\ data' = [data EXCEPT !.dir = TRUE]
            /\ UNCHANGED found

load_token(provider, user_email) ==
    /\ TokenCall("load_token", [provider |-> provider, user_email |-> user_email],
                 LoadedToken(provider, user_email))
    /\ data' = [data EXCEPT !.dir = TRUE]
    /\ UNCHANGED found

delete_token(provider, user_email) ==
    LET filepath == TokenFileName(provider, user_email)
        exists == data.dir /\ filepath \in DOMAIN data.files
    IN /\ TokenCall("delete_token",
                    [provider |-> provider, user_email |-> user_email,
                     files |-> data.files, saved |-> found[<<provider, user_email>>]],
                    exists)
       /\ data' = IF exists
                  THEN [data EXCEPT !.files = [f \in DOMAIN data.files \ {filepath} |-> data.files[f]]]
                  ELSE data
       /\ found' = [found EXCEPT ![<<provider, user_email>>] = PyNone]

clear_all_tokens ==
    /\ TokenCall("clear_all_tokens", <<>>, data.dir)
    /\ data' = [dir |-> FALSE, files |-> <<>>]
    /\ found' = [p \in DOMAIN found |-> PyNone]

\* The page is reloaded: the session state is gone, the disk is not.
PageReload ==
    /\ fn \notin {"idle", "reload"}
    /\ fn' = "reload"
    /\ args' = <<>>
    /\ result' = Pending
    /\ UNCHANGED <<issues, now, pc, data, found, hits, nq, raised, edited>>

TokenPairs ==
    { <<<<"j", "i", "r", "a">>, <<"a", ".", "b", "@", "x">>>>,
      <<<<"j", "i", "r", "a">>, <<"a", "_", "b", "@", "x">>>>,
      <<<<"j", "i", "r", "a">>, <<"c", "@", "x">>>>,
      <<<<"m", "s">>, <<"a", ".", "b", "@", "x">>>> }

Tokens == { Value([access_token |-> "t1"]), Value([access_token |-> "t2"]) }

InitTokens ==
    /\ issues = <<>> /\ now = 0
    /\ fn = "idle" /\ args = <<>> /\ pc = 0 /\ result = Pending
    /\ data = [dir |-> FALSE, files |-> <<>>]
    /\ found = [p \in TokenPairs |-> PyNone]
    /\ hits = <<>> /\ nq = 0 /\ raised = "no" /\ edited = FALSE

NextTokens ==
    \/ \E p \in TokenPairs, t \in Tokens, io \in {"ok", "raises"} : save_token(p[1], p[2], t, io)
    \/ \E p \in TokenPairs : load_token(p[1], p[2])
    \/ \E p \in TokenPairs : delete_token(p[1], p[2])
    \/ clear_all_tokens
    \/ PageReload

SpecTokens == InitTokens /\ [][NextTokens]_vars

-----------------------------------------------------------------------------
(* src/auth/oauth.py: validate_user_belongs_to_workspace.  `user` is the
   Atlassian account: its user_info dict (None when the caller has none)
   and the Jira sites the account can access. *)

\* Lines 158-179: (is_valid, message).  jira_config.get and user_info.get
\* raise for None into the handler.
ValidateUser(user_info, jira_config) ==
    IF user_info = PyNone \/ jira_config = PyNone
    THEN <<FALSE, "Failed to validate user: 'NoneType' object has no attribute 'get'">>
    ELSE LET allowed_instance == IF "allowed_instance" \in DOMAIN jira_config
                                 THEN jira_config.allowed_instance
                                 ELSE "wkengineering.atlassian.net"
             user_email == IF "email" \in DOMAIN user_info THEN user_info.email ELSE ""
         IN <<TRUE, "Access granted for " \o user_email>>

validate_user_belongs_to_workspace(user, jira_config) ==
    /\ fn = "idle"
    /\ fn' = "validate_user_belongs_to_workspace"
    /\ args' = [user |-> user, jira_config |-> jira_config]
    /\ result' = Value(ValidateUser(user.user_info, jira_config))
    /\ UNCHANGED <<issues, now, pc, data, found, hits, nq, raised, edited>>

JiraSites == {"wkengineering.atlassian.net", "acme.atlassian.net", "other.atlassian.net"}

Accounts ==
    { [user_info |-> info, sites |-> sites] :
        info \in { PyNone, [account_id |-> "42"] } \cup
                 { [account_id |-> "42", email |-> e] : e \in {"ann@wk.com", "bob@acme.com"} },
        sites \in SUBSET JiraSites }

JiraConfigs ==
    { PyNone, [url |-> "https://wkengineering.atlassian.net"] } \cup
    { [url |-> "https://" \o s, allowed_instance |-> s] : s \in JiraSites }

NextValidateUser ==
    /\ fn = "idle"
    /\ \E user \in Accounts, jira_config \in JiraConfigs :
         validate_user_belongs_to_workspace(user, jira_config)

SpecValidateUser == InitIdle /\ [][NextValidateUser]_vars

-----------------------------------------------------------------------------
(* get_project_components: the component names in the preferred order *)

MaxComponents == 3
MaxPreferred == 2

\* The order of characters sorted() compares by: blank, A-Z, a-z.
CharCode(c) ==
    IF c = " " THEN 0
    ELSE IF \E n \in 1..Len(UpperLetters) : UpperLetters[n] = c
    THEN CHOOSE n \in 1..Len(UpperLetters) : UpperLetters[n] = c
    ELSE Len(UpperLetters) + (CHOOSE n \in 1..Len(LowerLetters) : LowerLetters[n] = c)

\* a < b for two strings
RECURSIVE TextBefore(_, _)
TextBefore(a, b) ==
    IF b = <<>> THEN FALSE
    ELSE IF a = <<>> THEN TRUE
    ELSE IF Head(a) # Head(b) THEN CharCode(Head(a)) < CharCode(Head(b))
    ELSE TextBefore(Tail(a), Tail(b))

\* sorted(remaining_components)
RECURSIVE SortedTexts(_)
SortedTexts(S) ==
    IF S = {} THEN <<>>
    ELSE LET least == CHOOSE a \in S : \A b \in S \ {a} : TextBefore(a, b)
         IN <<least>> \o SortedTexts(S \ {least})

\* Lines 148-153: the loop over preferred_order from its n-th keyword on;
\* the first component whose name contains the keyword is appended.
RECURSIVE PreferredFirst(_, _, _)
PreferredFirst(component_names, preferred_order, n) ==
    IF n > Len(preferred_order) THEN <<>>
    ELSE LET matching == { i \in 1..Len(component_names) :
                             Contains(LowerText(component_names[i]),
                                      LowerText(preferred_order[n])) }
             this == IF matching = {} THEN <<>>
                     ELSE <<component_names[CHOOSE i \in matching : \A j \in matching : i <= j]>>
         IN this \o PreferredFirst(component_names, preferred_order, n + 1)

\* Lines 136-161: the list returned for project.components.
ProjectComponentNames(component_names, preferred_order) ==
    IF component_names = <<>> THEN <<>>
    ELSE IF preferred_order = PyNone \/ preferred_order = Value(<<>>) THEN component_names
    ELSE LET sorted_components == PreferredFirst(component_names, preferred_order.value, 1)
             remaining_components ==
                 { component_names[i] : i \in 1..Len(component_names) }
                 \ { sorted_components[i] : i \in 1..Len(sorted_components) }
         IN sorted_components \o SortedTexts(remaining_components)

\* `answer`: jira.project raises or gives the project with its components.
get_project_components(answer, component_names, preferred_order) ==
    /\ fn = "idle"
    /\ fn' = "get_project_components"
    /\ args' = [answer |-> answer, component_names |-> component_names,
                preferred_order |-> preferred_order]
    /\ result' = Value(IF answer = "raises" THEN <<>>
                       ELSE ProjectComponentNames(component_names, preferred_order))
    /\ raised' = (IF answer = "raises" THEN "project" ELSE "no")
    /\ UNCHANGED <<issues, now, pc, data, found, hits, nq, edited>>

NamePool ==
    { <<"S", "e", "a", "r", "c", "h", " ", "A", "P", "I">>,
      <<"B", "i", "l", "l", "i", "n", "g">>,
      <<"a", "p", "i", " ", "d", "o", "c", "s">>,
      <<"R", "e", "p", "o", "r", "t", "s">>,
      <<"Z", "o", "o">> }

\* Lists of distinct names, as a project has them.
NameLists ==
    { s \in UNION { [1..n -> NamePool] : n \in 0..MaxComponents } :
        \A i, j \in 1..Len(s) : i # j => s[i] # s[j] }

Keywords ==
    { <<"s", "e", "a", "r", "c", "h">>, <<"A", "P", "I">>, <<"b", "i", "l", "l">>, <<"o">> }

PreferredOrders ==
    {PyNone} \cup { Value(s) : s \in UNION { [1..n -> Keywords] : n \in 0..MaxPreferred } }

NextComponents ==
    /\ fn = "idle"
    /\ \E answer \in {"project", "raises"}, names \in NameLists, order \in PreferredOrders :
         get_project_components(answer, names, order)

SpecComponents == InitIdle /\ [][NextComponents]_vars

-----------------------------------------------------------------------------
(* get_jira_connection under @st.cache_resource, and the start of a render
   of the capability page.  `data` is the resource cache: (url, email,
   api_token) -> what the function returned; `nq` counts the connection
   attempts (the calls of JIRA(...)), `pc` the renders, and `found` holds the
   arguments for which a failed attempt returned None since the cache was
   last cleared. *)

MaxRenders == 4

\* (mutant: a None is not kept in the cache)
StoreConnectionUnlessNone(cache, key, jira) ==
    IF jira = PyNone THEN cache ELSE (key :> jira) @@ cache
\* st.cache_resource keeps whatever the function returned, None included.
StoreConnection(cache, key, jira) == (key :> jira) @@ cache

\* Lines 252-265 of the page with client.py 14-41: `answer` tells whether
\* JIRA(...) connects or raises if it is called, `probe` what
\* jira.current_user() does if it is called.
ConnectPage(key, answer, probe) ==
    LET cached == key \in DOMAIN data
        jira == IF cached THEN data[key]
                ELSE IF answer = "connects" THEN Value("jira") ELSE PyNone
    IN /\ fn \in {"idle", "component_capability"}
       /\ pc < MaxRenders
       /\ pc' = pc + 1
       /\ fn' = "component_capability"
       /\ args' = [key |-> key, answer |-> answer, probe |-> probe,
                   attempts_before |-> nq, failed_before |-> found]
       /\ nq' = (IF cached THEN nq ELSE nq + 1)
       /\ data' = (IF cached THEN data ELSE StoreConnection(data, key, jira))
       /\ found' = (IF ~cached /\ jira = PyNone THEN found \cup {key} ELSE found)
       /\ result' = Value([jira |-> jira,
                           page |-> IF validate_jira_connection(jira, probe)
                                    THEN "connected" ELSE "connection failed"])
       /\ UNCHANGED <<issues, now, hits, raised, edited>>

\* The resource cache is cleared (Streamlit's "Clear cache", a restart).
ClearConnectionCache ==
    /\ data # <<>>
    /\ data' = <<>>
    /\ found' = {}
    /\ UNCHANGED <<issues, now, fn, args, pc, result, hits, nq, raised, edited>>

ConnectionKeys ==
    { <<"https://acme.atlassian.net", "ann@acme.com", token>> : token \in {"tok1", "tok2"} }

InitConnection ==
    /\ issues = <<>> /\ now = 0
    /\ fn = "idle" /\ args = <<>> /\ pc = 0 /\ result = Pending
    /\ data = <<>> /\ found = {}
    /\ hits = <<>> /\ nq = 0 /\ raised = "no" /\ edited = FALSE

NextConnection ==
    \/ \E key \in ConnectionKeys, answer \in {"connects", "raises"}, probe \in {"ok", "raises"} :
          ConnectPage(key, answer, probe)
    \/ ClearConnectionCache

SpecConnection == InitConnection /\ [][NextConnection]_vars

-----------------------------------------------------------------------------
(* src/components/sidebar.py: render_sidebar.  `data` is st.session_state
   (current_page and selected_component, Missing before the first render),
   `pc` counts the renders. *)

MaxSidebarRenders == 3

\* Line 35
main_pages ==
    <<"Home", "Sprint Status", "Component Capability Status", "Sprint Metrics", "Custom Reports">>

\* One execution: `selected_main` is the radio's value; `load` tells how the
\* component list came out (a list, an empty one, no connection, an
\* exception), `component` is the selectbox's value when there is a list.
render_sidebar(selected_main, load, component) ==
    LET before == [current_page |-> IF data.current_page = Missing
                                    THEN Value("Home") ELSE data.current_page,
                   selected_component |-> IF data.selected_component = Missing
                                          THEN PyNone ELSE data.selected_component]
    IN /\ fn \in {"idle", "render_sidebar"}
       /\ pc < MaxSidebarRenders
       /\ pc' = pc + 1
       /\ fn' = "render_sidebar"
       /\ args' = [selected_main |-> selected_main, load |-> load, component |-> component]
       /\ data' = IF selected_main \in {"Sprint Status", "Component Capability Status"}
                  THEN (IF load = "components"
                        THEN [current_page |-> Value(selected_main \o " - " \o component),
                              selected_component |-> Value(component)]
                        ELSE [before EXCEPT !.current_page = Value("Home")])
                  ELSE [current_page |-> Value(selected_main), selected_component |-> PyNone]
       /\ UNCHANGED <<issues, now, found, result, hits, nq, raised, edited>>

SidebarComponents == {"Search", "Billing", "Reports"}

InitSidebar ==
    /\ issues = <<>> /\ now = 0
    /\ fn = "idle" /\ args = <<>> /\ pc = 0 /\ result = Pending
    /\ data = [current_page |-> Missing, selected_component |-> Missing]
    /\ found = <<>> /\ hits = <<>> /\ nq = 0 /\ raised = "no" /\ edited = FALSE

NextSidebar ==
    \E n \in 1..Len(main_pages), c \in SidebarComponents,
       load \in {"components", "empty", "no connection", "raises"} :
          render_sidebar(main_pages[n], load, c)

SpecSidebar == InitSidebar /\ [][NextSidebar]_vars

-----------------------------------------------------------------------------
(* Properties *)

RowNames == {"Defects", "Features"}
BucketCols == BacklogCols \cup SprintCols
RecognisedPriorities == {"Highest", "Critical", "High", "Medium", "Low", "Lowest"}

RECURSIVE SumOver(_, _)
SumOver(f, S) ==
    IF S = {} THEN 0
    ELSE LET c == CHOOSE x \in S : TRUE IN f[c] + SumOver(f, S \ {c})

Returned(f) == fn = f /\ result.tag = "value"

\* The cells of the returned matrix whose query matched issue k.
CellsOf(k, cols) ==
    {rc \in RowNames \X cols : k \in hits[rc[1]][rc[2]]}

\* C1 as stated: in every matrix get_component_capability_status returns, each
\* row's Total is at least the sum of its eight Backlog*/Sprint* cells.
C1_TotalCoversBuckets ==
    Returned("status") =>
        \A row \in RowNames :
            result.value[row]["Total"] >= SumOver(result.value[row], BucketCols)

\* C1 amended: the same, for a matrix computed while the tracker's issues did
\* not change between the first and the last of the 22 queries.
C1_TotalCoversBucketsFixedIssues ==
    (Returned("status") /\ ~edited) =>
        \A row \in RowNames :
            result.value[row]["Total"] >= SumOver(result.value[row], BucketCols)

\* A matrix over unchanged issues whose Defects row counts two open issues,
\* one of them in a bucket cell (the other has no recognised priority).
C1_Witness ==
    /\ Returned("status") /\ ~edited
    /\ result.value["Defects"]["Total"] = 2
    /\ SumOver(result.value["Defects"], BucketCols) = 1

OpenWithoutSprint(k) ==
    /\ ComponentFilter(issues[k], args.component.id)
    /\ IsUnresolved(issues[k])
    /\ issues[k].sprint = NoSprint

\* C2 as stated: every unresolved issue of the component without a sprint is
\* counted in some Backlog* cell and in no Sprint* cell.
C2_NoSprintIsBacklog ==
    Returned("status") =>
        \A k \in Keys :
            OpenWithoutSprint(k) =>
                CellsOf(k, BacklogCols) # {} /\ CellsOf(k, SprintCols) = {}

\* C2 amended: over unchanged issues, every unresolved issue of the component
\* without a sprint whose type is Bug, Story or Task and whose priority is one
\* of the six listed names is counted in exactly one Backlog* cell, that of
\* its type row, and in no Sprint* cell, for every sprint id.
C2_NoSprintIsBacklogForCountedIssues ==
    (Returned("status") /\ ~edited) =>
        \A k \in Keys :
            (/\ OpenWithoutSprint(k)
             /\ issues[k].type \in {"Bug", "Story", "Task"}
             /\ issues[k].priority \in RecognisedPriorities) =>
                /\ Cardinality(CellsOf(k, BacklogCols)) = 1
                /\ \A rc \in CellsOf(k, BacklogCols) : TypeFilter(rc[1], issues[k])
                /\ CellsOf(k, SprintCols) = {}

\* A matrix for sprint S2 over unchanged issues holding an open High Bug
\* without a sprint, counted under Backlog High of the Defects row.
C2_Witness ==
    /\ Returned("status") /\ ~edited
    /\ args.sprint_id = "S2"
    /\ \E k \in Keys :
          /\ OpenWithoutSprint(k)
          /\ issues[k].type = "Bug"
          /\ CellsOf(k, BacklogCols) = {<<"Defects", "Backlog High">>}

\* C4: in the matrix functions the first query that raises ends the call with
\* None: it was the last query issued (as many queries as the position of the
\* failing one, none twice), and a matrix is returned only when no query
\* raised, with every cell of both rows filled.
C4_FirstFailureAborts ==
    fn \in {"status", "historical"} =>
        /\ raised = "search" => result = PyNone /\ nq = pc
        /\ result.tag = "value" =>
              /\ raised = "no"
              /\ nq = (IF fn = "status" THEN LastStatusQuery ELSE LastHistQuery)
              /\ \A row \in RowNames :
                    DOMAIN result.value[row] =
                        (IF fn = "status" THEN {Criteria[n] : n \in 1..Len(Criteria)}
                         ELSE {HistCriteria[n] : n \in 1..Len(HistCriteria)})

\* The status call ended by its 10th query raising, after nine had filled
\* cells of `data`.
C4_Witness ==
    /\ fn = "status" /\ raised = "search" /\ nq = 10
    /\ "Sprint Critical" \in DOMAIN data["Defects"]
    /\ result = PyNone

NoExactMatch(name) ==
    \A n \in 1..Len(ProjectComponents) : ProjectComponents[n].name # name

\* C10: a component name without a case-sensitive exact match in the project's
\* component list makes each of the three functions return None without a
\* search query.
C10_UnknownComponentReturnsNone ==
    (fn # "idle" /\ NoExactMatch(args.component_name)) =>
        result = PyNone /\ nq = 0

\* The detail call for "search", which differs from the component "Search"
\* only in case, returned None although no gateway call raised.
C10_Witness ==
    /\ fn = "detail" /\ args.component_name = "search"
    /\ Lower(args.component_name) = Lower(ProjectComponents[1].name)
    /\ raised = "no" /\ result = PyNone /\ nq = 0

\* C3: in the scenario the returned matrix has Defects: Backlog High = 2,
\* Sprint Critical = 0, Total = 2, Resolved in last 30 days = 1, and
\* Features: Sprint Critical = 1, Total = 1.
C3_ScenarioMatrix ==
    Returned("status") =>
        /\ result.value["Defects"]["Backlog High"] = 2
        /\ result.value["Defects"]["Sprint Critical"] = 0
        /\ result.value["Defects"]["Total"] = 2
        /\ result.value["Defects"]["Resolved in last 30 days"] = 1
        /\ result.value["Features"]["Sprint Critical"] = 1
        /\ result.value["Features"]["Total"] = 1

\* The matrix was returned for the scenario whose Feature is a Task and whose
\* resolved Defect sits in sprint S1.
C3_Witness ==
    /\ Returned("status")
    /\ issues[3].type = "Task"
    /\ issues[4].sprint = "S1" /\ issues[4].resolved = At(5, 0)
    /\ result.value["Defects"]["Backlog High"] = 2

\* The calendar day N days before today: the cutoff of the historical variant.
Cutoff == DateStr(now) - args.days_ago

InAddedWindow(i) ==
    Cutoff - 30 <= DateStr(i.created) /\ DateStr(i.created) < Cutoff

\* C6: the historical variant with days_ago = N counts under 'Added in last 30
\* days' exactly the component's issues of the row's type whose creation day d
\* satisfies cutoff - 30 <= d < cutoff, cutoff being the day of now - N days;
\* for N = 7 an issue created at now - 10 days is counted and issues created
\* at now - 40 days and at now - 3 days are not.
C6_AddedWindow ==
    Returned("historical") =>
        \A row \in RowNames :
            LET counted == hits[row]["Added in last 30 days"] IN
            /\ result.value[row]["Added in last 30 days"] = Cardinality(counted)
            /\ \A k \in Keys :
                  /\ k \in counted <=>
                        /\ ComponentFilter(issues[k], args.component.id)
                        /\ TypeFilter(row, issues[k])
                        /\ InAddedWindow(issues[k])
                  /\ (args.days_ago = 7 /\ issues[k].created = now - Days(10)
                        /\ ComponentFilter(issues[k], args.component.id)
                        /\ TypeFilter(row, issues[k])) => k \in counted
                  /\ (args.days_ago = 7 /\ issues[k].created \in {now - Days(40), now - Days(3)})
                        => k \notin counted

\* The variant ran for N = 7 over a Defect created at now - 10 days, which it
\* counted, and one created on the day 37 days back, the window's first day.
C6_Witness ==
    /\ Returned("historical") /\ args.days_ago = 7
    /\ \E k, j \in Keys :
          /\ issues[k].created = now - Days(10) /\ issues[k].type = "Bug"
          /\ DateStr(issues[j].created) = DateStr(now) - 37 /\ issues[j].type = "Bug"
          /\ issues[j].created < now - Days(37)
          /\ hits["Defects"]["Added in last 30 days"] = {k, j}
    /\ result.value["Defects"]["Added in last 30 days"] = 2

CriticalAndHigh == {"Highest", "Critical", "High"}

\* C7 as stated: every record of the list get_critical_high_issues returns has
\* a priority in {Highest, Critical, High}.
C7_OnlyCriticalAndHigh ==
    Returned("detail") =>
        \A j \in 1..Len(result.value) : result.value[j].fields.priority \in CriticalAndHigh

\* C7 amended: every issue of the returned list had such a priority when the
\* search ran, and its returned record shows one when the tracker's issues did
\* not change during the call.
C7_CriticalAndHighWhenSearched ==
    Returned("detail") =>
        /\ Len(result.value) = Len(found)
        /\ \A j \in 1..Len(result.value) :
              /\ result.value[j].key = found[j].key
              /\ found[j].fields.priority \in CriticalAndHigh
              /\ ~edited => result.value[j].fields.priority \in CriticalAndHigh

\* The sprint list was returned over unchanged issues that hold an open
\* Critical Story and an open Medium Bug in the sprint: only the Story is
\* listed.
C7_Witness ==
    /\ Returned("detail") /\ ~edited /\ args.sprint_only /\ args.sprint_id = "S1"
    /\ \E k, m \in Keys :
          /\ issues[m].priority = "Medium" /\ IsUnresolved(issues[m])
          /\ InSprint(issues[m], "S1") /\ issues[m].type = "Bug"
          /\ ComponentFilter(issues[m], args.component.id)
          /\ issues[k].priority = "Critical"
          /\ result.value = <<Record(k)>>

Indicator(arrow) ==
    CASE arrow = "up" -> "increased"
      [] arrow = "down" -> "decreased"
      [] arrow = "" -> "none"

\* The current and the historical value of a compared quantity.
CurrentValue(r, c) ==
    IF r = "Combined"
    THEN args.capability_data["Defects"][c] + args.capability_data["Features"][c]
    ELSE args.capability_data[r][c]

HistoricalValue(r, c) ==
    IF r = "Combined"
    THEN args.historical_data.value["Defects"][c] + args.historical_data.value["Features"][c]
    ELSE args.historical_data.value[r][c]

\* C5: with a historical matrix at hand, each of the nine indicators is
\* increased iff current > historical, decreased iff current < historical and
\* none iff they are equal, the combined one comparing the sums of both rows;
\* (5,3) gives increased, (3,5) decreased, (4,4) none.
C5_TrendIndicators ==
    (fn = "render_table" /\ args.historical_data # PyNone) =>
        \A r \in {"Defects", "Features", "Combined"}, c \in TrendCols :
            LET ind == Indicator(result.value[r][c])
                cur == CurrentValue(r, c)
                hist == HistoricalValue(r, c)
            IN /\ ind = "increased" <=> cur > hist
               /\ ind = "decreased" <=> cur < hist
               /\ ind = "none" <=> cur = hist
               /\ (cur = 5 /\ hist = 3) => ind = "increased"
               /\ (cur = 3 /\ hist = 5) => ind = "decreased"
               /\ (cur = 4 /\ hist = 4) => ind = "none"

\* Totals 5 against 3 for Defects and 3 against 5 for Features: one arrow up,
\* one down, and none for the sums, 8 against 8.
C5_Witness ==
    /\ fn = "render_table" /\ args.historical_data # PyNone
    /\ CurrentValue("Defects", "Total") = 5 /\ HistoricalValue("Defects", "Total") = 3
    /\ CurrentValue("Features", "Total") = 3 /\ HistoricalValue("Features", "Total") = 5
    /\ result.value["Defects"]["Total"] = "up"
    /\ result.value["Features"]["Total"] = "down"
    /\ result.value["Combined"]["Total"] = ""
    /\ CurrentValue("Defects", "Added in last 30 days") = 4
    /\ result.value["Defects"]["Added in last 30 days"] = ""

\* The text shown for a comment.
TextOf(comment) == Truncate(BodyOrDefault(comment))

\* What each strategy of the documented order yields for an issue: the set
\* of texts it may give, empty when it yields nothing.
StrategyYield(s, issue) ==
    LET comments == issue.comments
        n == Len(comments)
        t == FlagAddedTime(issue.changelog)
    IN CASE s = 1 -> { TextOf(comments[i]) : i \in { j \in 1..n : HasFlagProperty(comments[j]) } }
         [] s = 2 -> { TextOf(comments[i]) : i \in { j \in 1..n : MentionsFlagged(comments[j]) } }
         [] s = 3 -> IF t = PyNone THEN {}
                     ELSE { TextOf(comments[i]) : i \in
                              { j \in 1..n :
                                  /\ Abs(t.value - comments[j].created) <= FlagWindow
                                  /\ \A k \in 1..n :
                                        Abs(t.value - comments[j].created)
                                            <= Abs(t.value - comments[k].created) } }
         [] s = 4 -> IF n >= 2 THEN { TextOf(comments[n - 1]) } ELSE {}
         [] s = 5 -> IF n >= 1 THEN { TextOf(comments[n]) } ELSE {}
         [] s = 6 -> IF issue.description # PyNone /\ issue.description.value # <<>>
                     THEN { Truncate(issue.description.value) } ELSE {}
         [] s = 7 -> { NoComment }

FirstYielding(issue) ==
    CHOOSE s \in 1..7 :
        /\ StrategyYield(s, issue) # {}
        /\ \A e \in 1..(s - 1) : StrategyYield(e, issue) = {}

\* C8: for an issue with a changelog entry setting the flag and a comment
\* tagged by a flag-related property, get_flagged_comment returns the text of
\* a tagged comment, whatever lies closer in time to the flag.
C8_TaggedCommentWins ==
    (/\ fn = "get_flagged_comment"
     /\ FlagAddedTime(args.issue.changelog) # PyNone
     /\ StrategyYield(1, args.issue) # {})
        => result.value \in StrategyYield(1, args.issue)

\* C9: get_flagged_comment returns what the first strategy that yields a
\* value gives, in the order tagged comment, comment mentioning 'flagged',
\* comment closest to the flag, second-to-last comment, last comment,
\* description, 'No comment', for every ordering of the comments.
C9_FixedStrategyOrder ==
    fn = "get_flagged_comment"
        => result.value \in StrategyYield(FirstYielding(args.issue), args.issue)

\* C11: the list get_critical_high_issues returns has one record per issue
\* of the initial search result, in its order: the record fetched again when
\* that fetch succeeded, the initially fetched record when it raised; no
\* failing re-fetch ends the call with None or leaves an issue out.
C11_RefetchFallsBack ==
    /\ (fn = "detail" /\ found # <<>>) => result # PyNone /\ raised = "no"
    /\ Returned("detail") =>
          /\ Len(result.value) = Len(found)
          /\ Len(hits) = Len(found)
          /\ \A j \in 1..Len(found) :
                /\ result.value[j].key = found[j].key
                /\ hits[j].ok => result.value[j] = hits[j].record
                /\ ~hits[j].ok => result.value[j] = found[j]

\* A list of two: the first issue's re-fetch raised after its priority had
\* been changed, so its record is the initial one and differs from the
\* tracker's; the second was fetched again.
C11_Witness ==
    /\ Returned("detail")
    /\ Len(result.value) = 2
    /\ ~hits[1].ok /\ hits[2].ok
    /\ result.value[1] # hits[1].record
    /\ result.value[1] = found[1]
    /\ result.value[2] = hits[2].record

\* The two cells, backlog and sprint, of the bucket a raw priority belongs to.
BucketCells(priority) ==
    CASE priority \in {"Highest", "Critical"} -> {"Backlog Critical", "Sprint Critical"}
      [] priority = "High" -> {"Backlog High", "Sprint High"}
      [] priority = "Medium" -> {"Backlog Medium", "Sprint Medium"}
      [] priority \in {"Low", "Lowest"} -> {"Backlog Low", "Sprint Low"}

RowOfType(type) == IF type = "Bug" THEN "Defects" ELSE "Features"

\* C12: over one fixed issue set, every unresolved issue of the component of
\* type Bug, Story or Task with one of the six priority names is counted in
\* exactly one of the eight Backlog*/Sprint* cells, in its type's row and in
\* the bucket Critical for Highest and Critical, High for High, Medium for
\* Medium, Low for Low and Lowest.
C12_BucketingTotalAndDisjoint ==
    (Returned("status") /\ ~edited) =>
        \A k \in Keys :
            (/\ ComponentFilter(issues[k], args.component.id)
             /\ IsUnresolved(issues[k])
             /\ issues[k].type \in {"Bug", "Story", "Task"}
             /\ issues[k].priority \in RecognisedPriorities) =>
                /\ Cardinality(CellsOf(k, BucketCols)) = 1
                /\ \A rc \in CellsOf(k, BucketCols) :
                      /\ rc[1] = RowOfType(issues[k].type)
                      /\ rc[2] \in BucketCells(issues[k].priority)

\* A matrix over unchanged issues: a Lowest Task of another sprint counted
\* under Backlog Low of Features only, a Critical Story of the sprint under
\* Sprint Critical only.
C12_Witness ==
    /\ Returned("status") /\ ~edited /\ args.sprint_id = "S1"
    /\ \E k, j \in Keys :
          /\ issues[k].priority = "Lowest" /\ issues[k].type = "Task"
          /\ CellsOf(k, BucketCols) = {<<"Features", "Backlog Low">>}
          /\ issues[j].priority = "Critical" /\ issues[j].type = "Story"
          /\ CellsOf(j, BucketCols) = {<<"Features", "Sprint Critical">>}
    /\ result.value["Features"]["Backlog Low"] = 1
    /\ result.value["Features"]["Sprint Critical"] = 1

\* The entries a task list gives when its futures are collected one by one
\* in the order given.
RECURSIVE CollectedIn(_, _)
CollectedIn(task_list, order) ==
    IF order = <<>> THEN <<>>
    ELSE LET i == order[Len(order)]
         IN SetItem(CollectedIn(task_list, SubSeq(order, 1, Len(order) - 1)),
                    NameOfTask(task_list[i]), ResultOrNone(CallableOfTask(task_list[i])))

\* C13: for every task list load_data_parallel returns (no exception leaves
\* it) a mapping with one entry per task name, holding for each task its
\* return value, or None if it raised.
C13_OneEntryPerTask ==
    fn = "load_data_parallel" =>
        /\ result.tag # "raised"
        /\ result.tag = "value" =>
              /\ DOMAIN result.value =
                    { NameOfTask(args.tasks[i]) : i \in 1..Len(args.tasks) }
              /\ \A i \in 1..Len(args.tasks) :
                    result.value[NameOfTask(args.tasks[i])]
                        = ResultOrNone(CallableOfTask(args.tasks[i]))

\* C14: the mapping returned is the one the task list gives when its tasks
\* complete in the order of submission, whatever order they completed in.
C14_SameForEveryCompletionOrder ==
    Returned("load_data_parallel") =>
        result.value =
            CollectedIn(args.task_list, [i \in 1..Len(args.task_list) |-> i])

\* The state of the i-th submitted future, "none" when there is no such.
FutureState(i) == IF i \in 1..Len(found) THEN found[i] ELSE "none"

\* C15: never more than 3 tasks run at the same moment, and every task
\* waiting in the queue is eventually started.
C15_AtMostThreeRunning ==
    /\ [](fn = "load_data_parallel" => Cardinality(RunningFutures) <= 3)
    /\ \A i \in 1..MaxQueued :
          (PoolRunning /\ FutureState(i) = "queued")
              ~> (FutureState(i) \in {"running", "done", "collected"})

\* Four tasks submitted: three run and the fourth waits for a worker.
C15_Witness ==
    /\ PoolRunning
    /\ Len(found) = 4
    /\ Cardinality(RunningFutures) = 3
    /\ found[4] = "queued"

\* The executions of the function body for a component among the first n.
ExecutionsFor(component_name, n) ==
    { e \in 1..n : hits[e].component_name = component_name }

LastOf(S) == CHOOSE e \in S : \A o \in S : o <= e

\* C16: two executions of the body of get_flagged_issues for the same
\* (project_key, component_name) lie at least CACHE_TTL seconds apart,
\* whichever render and gateway handle made the calls; a call served from the
\* cache gets the value of the latest execution for the pair.
C16_OneFetchPerTtlWindow ==
    /\ \A i, j \in 1..Len(hits) :
          (i < j /\ hits[i].component_name = hits[j].component_name)
              => hits[j].at - hits[i].at >= CACHE_TTL
    /\ (result # Pending /\ result.via = "hit") =>
          /\ ExecutionsFor(result.component_name, result.executions) # {}
          /\ result.value =
                hits[LastOf(ExecutionsFor(result.component_name, result.executions))].value

\* The list fetched through one handle at time 0 is served one clock step
\* later, within the window, to a call made through the other handle,
\* without a second execution.
C16_Witness ==
    /\ result # Pending /\ result.via = "hit"
    /\ result.component_name = "Search" /\ result.jira = "jira2"
    /\ result.value = Value(1)
    /\ nq = 1 /\ hits[1].jira = "jira1" /\ hits[1].at = 0 /\ now = ClockStep /\ now < CACHE_TTL

\* C17: once a list was fetched for a component, every later call for it
\* obtains the list of the last successful fetch, whatever fetches failed
\* since.
C17_StaleListAfterFailure ==
    LET good == { e \in ExecutionsFor(result.component_name, result.executions) :
                    hits[e].answer = "issues" }
    IN (result # Pending /\ FindComponent(result.component_name) # PyNone /\ good # {})
          => result.value = hits[LastOf(good)].value

\* C18: in a render of any of the three pages, when the validation fails (no
\* handle, or the current-user probe raises) the page shows the
\* connection-failed message and ends having called nothing of the gateway
\* but the probe.
C18_ConnectionFailureHaltsRender ==
    (/\ fn \in Pages
     /\ pc # "validate" \/ result # Pending
     /\ args.jira = PyNone \/ hits.probe = "raises") =>
        /\ result = Rendered
        /\ data = {"connection failed"}
        /\ found = (IF args.jira = PyNone THEN <<>> ELSE <<"current_user">>)

\* The capability page ended on a raising probe.
C18_Witness ==
    /\ fn = "component_capability"
    /\ args.jira # PyNone /\ hits.probe = "raises"
    /\ result = Rendered
    /\ found = <<"current_user">>

\* C19: in a render of the capability page in which the current matrix or
\* the historical matrix failed, the page shows an error and neither the
\* trend arrows nor a sprint or backlog detail table.
C19_AggregationFailureSkipsSections ==
    (/\ fn = "component_capability"
     /\ result = Rendered
     /\ hits.status = "raises" \/ hits.historical = "raises") =>
        /\ \E f \in {"status", "historical"} : ("error: " \o f) \in data
        /\ "trend" \notin data
        /\ "sprint_details table" \notin data
        /\ "backlog_details table" \notin data

\* The end dates the six probes give, in the order of the call: the REST
\* lookup of customfield_10020, fields.sprint, then the four custom fields.
ProbeYields ==
    <<EndDateOfRest(args.jira, args.base_url, args.rest),
      EndDateOfSprintField(args.issue.fields.sprint),
      EndDateOfCustomField(args.issue.fields.customfield_10010),
      EndDateOfCustomField(args.issue.fields.customfield_10001),
      EndDateOfCustomField(args.issue.fields.customfield_10006),
      EndDateOfCustomField(args.issue.fields.customfield_10007)>>

\* The first probe with an end date, 0 when none has one.
FirstProbe ==
    IF \E i \in 1..6 : Truthy(ProbeYields[i])
    THEN CHOOSE i \in 1..6 :
            /\ Truthy(ProbeYields[i])
            /\ \A j \in 1..(i - 1) : ~Truthy(ProbeYields[j])
    ELSE 0

\* The date shown for an end date: its calendar date when it is a
\* timestamp or a date, the string itself otherwise.
ShownDate(e) ==
    IF e.kind \in {"iso", "date"} THEN [kind |-> "date", day |-> e.day] ELSE e

DueDateAndProbeOrder ==
    fn = "get_target_completion_date" =>
        LET duedate == args.issue.fields.duedate
        IN /\ Truthy(duedate) =>
                /\ result = Value([text |-> duedate, hint |-> ""])
                /\ nq = 0
           /\ duedate = Missing => result = Value([text |-> [kind |-> "N/A", day |-> 0], hint |-> ""])
           /\ duedate = PyNone =>
                IF FirstProbe = 0
                THEN result = Value([text |-> [kind |-> "N/A", day |-> 0], hint |-> ""])
                ELSE result = Value([text |-> ShownDate(ProbeYields[FirstProbe]),
                                     hint |-> "(Sprint Date)"])

\* C20 (as the code has it): get_target_completion_date returns the due
\* date when the issue has one, without a gateway call; otherwise the end
\* date (as a calendar date, marked as a sprint date) of the first probe
\* that gives one, in the order REST customfield_10020, fields.sprint,
\* customfield_10010, customfield_10001, customfield_10006,
\* customfield_10007; otherwise "N/A".  An exception reading the due date
\* gives "N/A"; an exception of the REST lookup only skips that probe, and
\* an end date that cannot be parsed is returned unformatted.
C20_DueDateThenFirstProbe ==
    /\ DueDateAndProbeOrder
    /\ (fn = "get_target_completion_date" /\ raised = "rest") =>
          /\ ProbeYields[1] = PyNone
          /\ nq = 1
    /\ (fn = "get_target_completion_date" /\ raised = "format") =>
          result = Value([text |-> ProbeYields[FirstProbe], hint |-> "(Sprint Date)"])

\* No due date, the REST lookup and fields.sprint and customfield_10010
\* give nothing, customfield_10001 and customfield_10007 each hold an end
\* date: the date of customfield_10001 is returned.
C20_Witness ==
    /\ fn = "get_target_completion_date"
    /\ args.issue.fields.duedate = PyNone
    /\ args.jira # PyNone /\ args.rest.answer = "200" /\ nq = 1
    /\ FirstProbe = 4
    /\ Truthy(ProbeYields[6])
    /\ ProbeYields[4].kind = "iso"
    /\ result = Value([text |-> [kind |-> "date", day |-> 4], hint |-> "(Sprint Date)"])

\* C20 (as stated): the same, and on any exception the call returns "N/A".
C20_AnyExceptionGivesNotAvailable ==
    /\ DueDateAndProbeOrder
    /\ (fn = "get_target_completion_date" /\ raised # "no") =>
          result = Value([text |-> [kind |-> "N/A", day |-> 0], hint |-> ""])

\* What the field holds as text: the string, the dict's 'value' or 'name'
\* entry, str() of anything else; nothing for a missing, None or falsy field
\* and for a value of another type that reads 'None'.
NarrativeOf(field) ==
    IF field = Missing \/ field = PyNone THEN <<>>
    ELSE IF ~field.truthy THEN <<>>
    ELSE IF field.kind = "dict" /\ field.value # Missing THEN Strip(StrOf(field.value))
    ELSE IF field.kind = "dict" /\ field.name # Missing THEN Strip(StrOf(field.name))
    ELSE IF field.kind # "str" /\ LowerText(Strip(field.repr)) = <<"n", "o", "n", "e">> THEN <<>>
    ELSE Strip(field.repr)

\* C21: get_resolution_approach returns the narrative cut to 500 characters
\* when the field holds a non-blank one and 'N/A' in every other case; it
\* never returns an empty string nor more than 500 characters.
C21_NarrativeOrNotAvailable ==
    fn = "get_resolution_approach" =>
        LET narrative == NarrativeOf(args.issue.fields.customfield_11249)
        IN /\ result.value # <<>>
           /\ Len(result.value) <= 500
           /\ narrative = <<>> => result.value = <<"N", "/", "A">>
           /\ (narrative # <<>> /\ Len(narrative) <= 500) => result.value = narrative
           /\ Len(narrative) > 500 => result.value = SubSeq(narrative, 1, 500)

\* The key a link field refers to: that of an object or a dict carrying a
\* key, nothing otherwise.
EpicReference(x) ==
    IF x \in {Missing, PyNone} THEN PyNone
    ELSE IF x.kind \in {"object", "dict"} /\ x.key # Missing THEN x.key
    ELSE PyNone

\* The epic key the cell has to show: the parent link's, else that of the
\* first candidate field with a reference, else none.
ExpectedEpicKey ==
    LET fields == args.issue.fields
        refs == <<EpicReference(fields.parent), EpicReference(fields.customfield_10014),
                  EpicReference(fields.customfield_10011), EpicReference(fields.customfield_10051)>>
    IN IF \E i \in 1..4 : refs[i] # PyNone
       THEN refs[CHOOSE i \in 1..4 : refs[i] # PyNone /\ \A j \in 1..(i - 1) : refs[j] = PyNone]
       ELSE PyNone

\* C22: the Parent EPIC cell shows the epic of the parent link when there
\* is one, else of the first of customfield_10014, customfield_10011,
\* customfield_10051 holding a reference; when the fetch of the epic raises
\* the cell shows the key as the name; without a key the cell is 'N/A' and
\* no fetch is made.
C22_ParentEpicCell ==
    fn = "parent_epic_link" =>
        IF ExpectedEpicKey = PyNone
        THEN result = Value("N/A") /\ nq = 0 /\ found = <<>>
        ELSE /\ result.value.key = ExpectedEpicKey
             /\ found = <<ExpectedEpicKey>>
             /\ nq = 1
             /\ args.answer = "raises" => result.value.name = ExpectedEpicKey
             /\ args.answer = "summary" => result.value.name = Value("summary of " \o ExpectedEpicKey.value)

\* No parent link, customfield_10014 empty, customfield_10011 and
\* customfield_10051 both refer to an epic, the fetch raises: the cell shows
\* the key of customfield_10011.
C22_Witness ==
    /\ fn = "parent_epic_link"
    /\ args.issue.fields.parent = PyNone
    /\ args.issue.fields.customfield_10014 = PyNone
    /\ args.issue.fields.customfield_10051 # PyNone
    /\ args.answer = "raises" /\ raised = "issue"
    /\ result = Value([key |-> Value("E2"), name |-> Value("E2")])

\* The number of issues the matrix counts in the Critical and High cells of
\* the sprint (or the backlog) columns, both rows together, over the
\* tracker as it is.
MatrixCriticalHigh(sprint_only) ==
    LET cols == IF sprint_only THEN {"Sprint Critical", "Sprint High"}
                ELSE {"Backlog Critical", "Backlog High"}
        cells == RowNames \X cols
        count == [rc \in cells |->
                     Cardinality(SearchStatus(rc[1], rc[2], args.component.id,
                                              args.sprint_id, DateStr(now - Days(30))))]
    IN SumOver(count, cells)

\* The keys of the list a call with the other sprint_only value obtains.
OtherListKeys ==
    LET other == SearchDetail(args.component.id, args.sprint_id, ~args.sprint_only)
    IN { other[j].key : j \in 1..Len(other) }

\* The detail call ended on an unchanged tracker without raising.
DetailEndedOnFixedIssues ==
    /\ fn = "detail" /\ result # Pending
    /\ "component" \in DOMAIN args
    /\ raised = "no" /\ ~edited

\* C23: over one fixed issue set with at most 100 matches, the sprint list
\* has as many records as Sprint Critical + Sprint High of both matrix rows,
\* the backlog list as many as Backlog Critical + Backlog High, and no issue
\* is in both lists.
C23_DetailListsAgreeWithMatrix ==
    (DetailEndedOnFixedIssues /\ MatrixCriticalHigh(args.sprint_only) <= 100) =>
        LET records == IF result = PyNone THEN <<>> ELSE result.value
        IN /\ Len(records) = MatrixCriticalHigh(args.sprint_only)
           /\ \A j \in 1..Len(records) : records[j].key \notin OtherListKeys

\* A backlog list of two records over an unchanged tracker: one issue
\* without a sprint, one of another sprint.
C23_Witness ==
    /\ DetailEndedOnFixedIssues
    /\ ~args.sprint_only
    /\ result # PyNone /\ Len(result.value) = 2
    /\ \E k \in Keys : issues[k].sprint = NoSprint
    /\ \E k \in Keys : issues[k].sprint \notin {NoSprint, args.sprint_id}

\* The Total cells of the current matrix over the tracker and the clock of
\* the state.
CurrentTotals ==
    [row \in RowNames |->
        [col \in {"Total"} |->
            Cardinality(SearchStatus(row, "Total", args.component.id, args.sprint_id,
                                     DateStr(now - Days(30))))]]

\* C24: over the same issues and the same clock the historical Total of a
\* type row is at most the current Total, for every days_ago, and the trend
\* arrow of Total, per type and combined, is never the decrease one.
C24_HistoricalTotalAtMostCurrent ==
    Returned("historical") =>
        /\ \A row \in RowNames :
              result.value[row]["Total"] <= CurrentTotals[row]["Total"]
        /\ \A r \in {"Defects", "Features", "Combined"} :
              Arrows(CurrentTotals, Value(result.value))[r]["Total"] # "down"

\* For days_ago = 7: two open Defects, one created before the cutoff and one
\* after it; the historical Total is 1, the current 2, the arrow shows an
\* increase.
C24_Witness ==
    /\ Returned("historical") /\ args.days_ago = 7
    /\ result.value["Defects"]["Total"] = 1
    /\ CurrentTotals["Defects"]["Total"] = 2
    /\ Arrows(CurrentTotals, Value(result.value))["Defects"]["Total"] = "up"
    /\ Arrows(CurrentTotals, Value(result.value))["Combined"]["Total"] = "up"

\* C25: load_token(p, e) returns the token_data of the last save_token of
\* (p, e) that returned True, across page reloads, until a later save of the
\* pair, delete_token(p, e) or clear_all_tokens, and None after those;
\* delete_token on a pair with no saved token returns False and leaves the
\* files as they were.
C25_TokenRoundTrip ==
    /\ fn = "load_token" => result.value = found[<<args.provider, args.user_email>>]
    /\ (fn = "delete_token" /\ args.saved = PyNone) =>
          /\ result = Value(FALSE)
          /\ data.files = args.files

\* C26: a save_token or delete_token for one (provider, email) leaves what
\* load_token returns for every other pair as it was.
C26_OtherPairsUntouched ==
    [][(nq' = nq + 1 /\ fn' \in {"save_token", "delete_token"}) =>
          \A q \in TokenPairs :
              q # <<args'.provider, args'.user_email>> =>
                  LoadedToken(q[1], q[2])' = LoadedToken(q[1], q[2])]_vars

\* The instance the configuration allows.
AllowedInstance ==
    IF args.jira_config # PyNone /\ "allowed_instance" \in DOMAIN args.jira_config
    THEN args.jira_config.allowed_instance
    ELSE "wkengineering.atlassian.net"

\* C27: validate_user_belongs_to_workspace answers is_valid = True only for
\* a user of the allowed instance, and (False, message) for any other.
C27_OnlyUsersOfAllowedInstance ==
    fn = "validate_user_belongs_to_workspace" =>
        /\ result.value[1] => AllowedInstance \in args.user.sites
        /\ AllowedInstance \notin args.user.sites => result.value[1] = FALSE

\* A component name is matched by one of the preferred keywords.
MatchedByKeyword(name) ==
    /\ args.preferred_order # PyNone
    /\ \E n \in 1..Len(args.preferred_order.value) :
          Contains(LowerText(name), LowerText(args.preferred_order.value[n]))

\* The first keyword matching a matched name.
FirstKeyword(name) ==
    CHOOSE n \in 1..Len(args.preferred_order.value) :
        /\ Contains(LowerText(name), LowerText(args.preferred_order.value[n]))
        /\ \A m \in 1..(n - 1) :
              ~Contains(LowerText(name), LowerText(args.preferred_order.value[m]))

\* C28: get_project_components returns each component name of the project
\* exactly once, the names matched by a preferred keyword first, in the
\* order of the keywords, the others after them in alphabetical order.
C28_PermutationInPreferredOrder ==
    (fn = "get_project_components" /\ args.answer = "project") =>
        LET names == args.component_names
            out == result.value
        IN /\ Len(out) = Len(names)
           /\ \A i \in 1..Len(names) : \E j \in 1..Len(out) : out[j] = names[i]
           /\ \A i, j \in 1..Len(out) : i < j =>
                 /\ out[i] # out[j]
                 /\ MatchedByKeyword(out[j]) => MatchedByKeyword(out[i])
                 /\ (MatchedByKeyword(out[i]) /\ MatchedByKeyword(out[j])) =>
                        FirstKeyword(out[i]) <= FirstKeyword(out[j])
                 /\ (~MatchedByKeyword(out[i]) /\ ~MatchedByKeyword(out[j])) =>
                        TextBefore(out[i], out[j])

\* C29: once get_jira_connection has returned None for its arguments after
\* a failed attempt, every later render with the same arguments gets None
\* without a new attempt and reports the connection failure, until the
\* cache is cleared.
C29_FailedConnectionIsCached ==
    (fn = "component_capability" /\ args.key \in args.failed_before) =>
        /\ result.value.jira = PyNone
        /\ nq = args.attempts_before
        /\ result.value.page = "connection failed"

\* A render after a failed one with the same arguments, at a moment where
\* the tracker would accept the connection: no attempt is made.
C29_Witness ==
    /\ fn = "component_capability"
    /\ args.key \in args.failed_before
    /\ args.answer = "connects" /\ args.probe = "ok"
    /\ nq = 1 /\ pc = 2
    /\ result.value.page = "connection failed"

\* C30: after every execution of render_sidebar current_page is 'Home',
\* 'Sprint Metrics', 'Custom Reports', 'Sprint Status - c' or 'Component
\* Capability Status - c', and selected_component is c for the two
\* component forms and None otherwise.
C30_SidebarSessionState ==
    fn = "render_sidebar" =>
        \/ /\ data.current_page \in {Value("Home"), Value("Sprint Metrics"), Value("Custom Reports")}
           /\ data.selected_component = PyNone
        \/ \E c \in SidebarComponents :
              /\ data.current_page \in {Value("Sprint Status - " \o c),
                                        Value("Component Capability Status - " \o c)}
              /\ data.selected_component = Value(c)

====
